---- MODULE Spec2Model ----
(***************************************************************************)
(* A model of WebRtcPeerCore (src/src/WebRtcPeerCore.js): the negotiation  *)
(* and candidate-management state machine layered on an RTCPeerConnection. *)
(*                                                                         *)
(* The Peer is single threaded.  Every action below is one task of the     *)
(* event loop: a public method call with the synchronous part of its body, *)
(* an event of the underlying connection with the whole handler, or the    *)
(* settlement of an asynchronous connection operation together with every  *)
(* promise continuation that runs in the same turn.                        *)
(***************************************************************************)
EXTENDS Integers, Sequences, FiniteSets, TLC

(* ------------------------------ bounds -------------------------------- *)

\* negotiation calls (generateOffer, processOffer, processAnswer) made in a run
MaxCalls == 1
\* underlying connections a Peer goes through (the first one and the recreated ones)
MaxConns == 2
\* icecandidate events (candidates and null candidates) of a run
MaxEvents == 3
\* listener functions the application owns
MaxListeners == 1
\* replaceStream calls made in a run
MaxReplaces == 1
\* send calls made on a connection
MaxSends == 2
\* replaceTrack calls made in a run
MaxTrackCalls == 1

(* ------------------------------ values -------------------------------- *)

Modes == {"recvonly", "sendonly", "sendrecv"}

\* a null candidate: event.candidate === null, gathering has finished
NullCandidate == 0

\* the events of the Peer an application listens to
IceEvents == {"icecandidate", "candidategatheringdone"}
Events == IceEvents \cup {"streamended"}

\* SDP text, as the sequence of its lines; "FID" is a line a=ssrc-group:FID,
\* "mA" and "mV" are the media sections m=audio and m=video
\* a line of the fixed simulcast block carries an SSRC, a stream id and a track id
Line(l) == [l |-> l, ssrc |-> 0, stream |-> 0, track |-> 0]
Lines(ls) == [i \in 1..Len(ls) |-> Line(ls[i])]
SdpSet == { Lines(<<"mA">>), Lines(<<"mA", "mV", "FID", "ssrc">>) }

NoDesc == [type |-> "null", sdp |-> <<>>]
NoStream == [id |-> 0, tracks |-> <<>>]

\* options.configuration, merged into #peerconnectionConfiguration
Configurations == {"stun", "turn"}

\* #videoSink: null, or the sink on the track of a receiver of a connection
NoSink == [conn |-> 0, receiver |-> 0]
\* #lastFrame: null, or a frame, with the connection it was received on
NoFrame == [conn |-> 0, receiver |-> 0]

\* #dataChannel: undefined, or the channel with its readyState and what was sent on
\* it; refused: the data of the send calls that ended in the logger's warning
NoChannel == [readyState |-> "undefined", sent |-> <<>>, refused |-> <<>>]
Data == {"d1", "d2"}

\* the tracks the application owns at construction: 1 is a video track, 2 an audio track
AppTracks ==
  << [kind |-> "video", stopped |-> FALSE, enabled |-> TRUE],
     [kind |-> "audio", stopped |-> FALSE, enabled |-> TRUE] >>
AppVideoStream == [id |-> 1, tracks |-> <<1>>]
AppAudioStream == [id |-> 2, tracks |-> <<2>>]

VARIABLES
  mode,             \* #mode
  dataChannels,     \* #dataChannels
  peerconnectionConfiguration,  \* #peerconnectionConfiguration
  mediaConstraints, \* #mediaConstraints: [audio, video], each "true", "false" or "object"
  simulcast,        \* #simulcast
  usePlanB,         \* #usePlanB
  sendSource,       \* #sendSource
  videoStream,      \* #videoStream
  audioStream,      \* #audioStream
  tracks,           \* every MediaStreamTrack: [kind, stopped]
  conns,            \* every RTCPeerConnection the Peer created; #peerConnection is the last
  ready,            \* the readiness promises, #ready is the last
  calls,            \* the negotiation calls made, each with its promise chain
  listeners,        \* listener function -> the event it is registered for, or "none"
  newListenerHook,  \* #onNewListener is registered for 'newListener'
  candidatesQueueOut,      \* #candidatesQueueOut
  candidategatheringdone,  \* #candidategatheringdone
  produced,         \* history: the candidates of the icecandidate events, in order
  delivered,        \* history: [listener, event, candidate] for every listener invocation
  emitted,          \* history: [event, candidate] for every emit of an ICE event
  disposed,         \* history: "no", or how dispose() found the Peer: "early", "ready"
  replaces,         \* the replaceStream calls made, each with its sender.replaceTrack calls
  lastFrame,        \* #lastFrame
  videoSink,        \* #videoSink
  captures,         \* history: the capture calls made on mediaDevices, in order
  trackCalls,       \* the replaceTrack calls made, each with its promise chain
  bufferPc,         \* the connection given to bufferizeCandidates: signaling state, descriptions
  candidatesQueue,  \* candidatesQueue of bufferizeCandidates
  submitted,        \* history: how many candidates were handed to the buffer
  addCalls,         \* history: the pc.addIceCandidate calls and the state they were made in
  refusals          \* history: the candidates whose callback got the closed error

config == <<mode, dataChannels, peerconnectionConfiguration, mediaConstraints, simulcast,
            usePlanB, sendSource>>
media == <<videoStream, audioStream, tracks>>
ice == <<candidatesQueueOut, candidategatheringdone, produced, delivered, emitted>>
remote == <<lastFrame, videoSink>>
acquisition == <<captures, trackCalls>>
buffer == <<bufferPc, candidatesQueue, submitted, addCalls, refusals>>
vars == <<config, media, conns, ready, calls, listeners, newListenerHook, ice, disposed,
          replaces, remote, acquisition, buffer>>

\* #peerConnection: the connection the Peer currently holds
pc == Len(conns)

(* ------------------- the underlying RTCPeerConnection ------------------ *)

\* new RTCPeerConnection(configuration): no listener on it yet, no data channel
NewConnection(configuration) ==
  [ connectionState |-> "new", signalingState |-> "stable",
    transceivers |-> <<>>, localDescription |-> NoDesc,
    remoteDescription |-> NoDesc, closeEvent |-> FALSE,
    configuration |-> configuration, handlers |-> FALSE, channel |-> NoChannel ]

IsClosed(c) == c.connectionState = "closed"

\* pc.close(): the states become 'closed' and so does the data channel; a
\* connectionstatechange event may follow
Close(c) ==
  [c EXCEPT !.connectionState = "closed", !.signalingState = "closed",
            !.closeEvent = TRUE,
            !.channel.readyState = IF @ = "undefined" THEN @ ELSE "closed"]

\* pc.addTransceiver(kind, {direction}); throws InvalidStateError on a closed connection
AddTransceiver(c, kind, direction) ==
  [c EXCEPT !.transceivers =
     Append(@, [kind |-> kind, direction |-> direction, track |-> 0])]

\* pc.addTrack(track): reuses a transceiver of the kind that never sent, else adds one
ReusableFor(trs, kind) ==
  { i \in 1..Len(trs) : /\ trs[i].kind = kind /\ trs[i].track = 0
                        /\ trs[i].direction \in {"recvonly", "inactive"} }

AddTrack(c, t, kind) ==
  LET trs == c.transceivers
      free == ReusableFor(trs, kind)
  IN IF free = {}
       THEN [c EXCEPT !.transceivers =
               Append(@, [kind |-> kind, direction |-> "sendrecv", track |-> t])]
       ELSE LET i == CHOOSE j \in free : \A k \in free : j <= k
            IN [c EXCEPT !.transceivers[i] =
                  [@ EXCEPT !.track = t,
                            !.direction = IF @ = "recvonly" THEN "sendrecv" ELSE "sendonly"]]

\* pc.addTrack(track) throws InvalidAccessError when a sender already sends the track
HasSenderFor(c, t) == \E i \in 1..Len(c.transceivers) : c.transceivers[i].track = t

\* the media kinds an SDP has a section for
SdpKinds(sdp) ==
  {k \in {"audio", "video"} :
     \E i \in 1..Len(sdp) : sdp[i].l = (IF k = "audio" THEN "mA" ELSE "mV")}

HasKind(c, kind) == \E i \in 1..Len(c.transceivers) : c.transceivers[i].kind = kind

\* a remote offer creates a transceiver for each media section no transceiver takes
RemoteTransceivers(c, sdp) ==
  LET a == IF "audio" \in SdpKinds(sdp) /\ ~HasKind(c, "audio")
             THEN <<[kind |-> "audio", direction |-> "recvonly", track |-> 0]>> ELSE <<>>
      v == IF "video" \in SdpKinds(sdp) /\ ~HasKind(c, "video")
             THEN <<[kind |-> "video", direction |-> "recvonly", track |-> 0]>> ELSE <<>>
  IN c.transceivers \o a \o v

\* the signaling states from which a description of a type can be set
CanSetRemote(c, type) ==
  IF type = "offer" THEN c.signalingState \in {"stable", "have-remote-offer"}
                    ELSE c.signalingState = "have-local-offer"

CanSetLocal(c, type) ==
  IF type = "offer" THEN c.signalingState \in {"stable", "have-local-offer"}
                    ELSE c.signalingState = "have-remote-offer"

\* pc.setRemoteDescription(desc), once it succeeded
SetRemoteDescription(c, desc) ==
  [c EXCEPT !.remoteDescription = desc,
            !.signalingState = IF desc.type = "offer" THEN "have-remote-offer" ELSE "stable",
            !.transceivers = IF desc.type = "offer" THEN RemoteTransceivers(c, desc.sdp) ELSE @]

\* pc.setLocalDescription(desc), once it succeeded
SetLocalDescription(c, desc) ==
  [c EXCEPT !.localDescription = desc,
            !.signalingState = IF desc.type = "offer" THEN "have-local-offer" ELSE "stable"]

(* --------------------------- media and tracks ------------------------- *)

RECURSIVE StopAll(_, _)
\* track.stop() for every track of a list
StopAll(trk, ts) ==
  IF ts = <<>> THEN trk
  ELSE StopAll([trk EXCEPT ![Head(ts)].stopped = TRUE], Tail(ts))

OfKind(trk, ts, kind) == SelectSeq(ts, LAMBDA t : trk[t].kind = kind)

\* the kinds of track mediaDevices[method](constraints) returns for a source
AcquiredKinds(source, mc) ==
  IF source = "screen" THEN <<"video">>
  ELSE (IF mc.audio # "false" THEN <<"audio">> ELSE <<>>)
       \o (IF mc.video # "false" THEN <<"video">> ELSE <<>>)

\* #getMedia(track), the capture call: getDisplayMedia({audio: false, video: true})
\* for 'screen', else getUserMedia(#mediaConstraints)
Capture(source, mc) ==
  IF source = "screen"
    THEN [method |-> "getDisplayMedia", constraints |-> [audio |-> "false", video |-> "true"]]
    ELSE [method |-> "getUserMedia", constraints |-> mc]

\* #getMedia(track), the continuation of the capture call: the held stream's video
\* tracks are stopped, a screen capture takes over its audio tracks, the stream is adopted
getMedia(source, vs, trk, mc) ==
  LET kinds == AcquiredKinds(source, mc)
      fresh == [i \in 1..Len(kinds) |-> Len(trk) + i]
      all   == trk \o [i \in 1..Len(kinds) |->
                        [kind |-> kinds[i], stopped |-> FALSE, enabled |-> TRUE]]
      held  == vs # NoStream
      stopd == IF held THEN StopAll(all, OfKind(all, vs.tracks, "video")) ELSE all
      carry == IF held /\ source = "screen" THEN OfKind(all, vs.tracks, "audio") ELSE <<>>
  IN [ stream |-> [id |-> 10 + Len(trk), tracks |-> fresh \o carry], tracks |-> stopd ]

(* ------------------------------ readiness ----------------------------- *)

RECURSIVE AddTracks(_, _, _)
\* for(const track of stream.getTracks()) pc.addTrack(track), stopping at a throw
AddTracks(c, ts, trk) ==
  IF ts = <<>> THEN [conn |-> c, err |-> "none"]
  ELSE IF HasSenderFor(c, Head(ts)) THEN [conn |-> c, err |-> "InvalidAccessError"]
  ELSE AddTracks(AddTrack(c, Head(ts), trk[Head(ts)].kind), Tail(ts), trk)

\* mutant: the state of the connection is not looked at
startUnguarded(c, vs, as, trk) == AddTracks(c, vs.tracks \o as.tracks, trk)

\* #start: throws on a closed connection, else adds the tracks of the video stream
\* and then those of the audio stream to the connection the Peer holds
start(c, vs, as, trk) ==
  IF IsClosed(c) THEN [conn |-> c, err |-> "closed"]
  ELSE AddTracks(c, vs.tracks \o as.tracks, trk)

Settled(r) == IF r.err = "none" THEN [stage |-> "resolved", err |-> "none"]
                                ELSE [stage |-> "rejected", err |-> r.err]

\* mutant: the streams given are not looked at
NeedsMediaUnlessReceiving(m, vs, as) == m # "recvonly"

\* #initPeerConnection decides whether media has to be acquired
NeedsMedia(m, vs, as) == ~(m = "recvonly" \/ vs # NoStream \/ as # NoStream)

\* a continuation of the constructor's own turn is still to run: no event of the
\* connection or of the capture device is handled before it
MicrotaskPending == \E i \in 1..Len(ready) : ready[i].stage = "start"

\* ready = promise.then(#start), run when its turn comes after the constructor
Start ==
  /\ MicrotaskPending
  /\ LET i == CHOOSE j \in 1..Len(ready) : ready[j].stage = "start"
         r == start(conns[pc], videoStream, audioStream, tracks)
     IN /\ conns' = [conns EXCEPT ![pc] = r.conn]
        /\ ready' = [ready EXCEPT ![i] = Settled(r)]
  /\ UNCHANGED <<config, media, calls, listeners, newListenerHook, ice, disposed, replaces, remote, acquisition, buffer>>

\* the capture call of #getMedia settles: on success the stream is adopted and
\* #start runs in the same turn; on failure the readiness promise rejects
GetMediaDone(i, ok) ==
  /\ ~MicrotaskPending
  /\ i \in 1..Len(ready) /\ ready[i].stage = "acquiring"
  /\ IF ok /\ AcquiredKinds(sendSource, mediaConstraints) # <<>>
       THEN LET g == getMedia(sendSource, videoStream, tracks, mediaConstraints)
                r == start(conns[pc], g.stream, audioStream, g.tracks)
            IN /\ videoStream' = g.stream
               /\ tracks' = g.tracks
               /\ conns' = [conns EXCEPT ![pc] = r.conn]
               /\ ready' = [ready EXCEPT ![i] = Settled(r)]
               /\ UNCHANGED audioStream
       ELSE /\ ready' = [ready EXCEPT ![i] = [stage |-> "rejected", err |-> "getMedia"]]
            /\ UNCHANGED <<media, conns>>
  /\ UNCHANGED <<config, calls, listeners, newListenerHook, ice, disposed, replaces, remote, acquisition, buffer>>

(* ------------------------ connection life cycle ----------------------- *)

\* #initPeerConnection, the wiring: the data channel when asked for, and the
\* handlers of connectionstatechange and icecandidate
Wire(c, channels) ==
  [c EXCEPT !.handlers = TRUE,
            !.channel = IF channels THEN [@ EXCEPT !.readyState = "connecting"] ELSE @]

\* #initPeerConnection on a connection just created by #onConnectionStateChange:
\* without acquisition #start runs right after the handler, in the same turn
initPeerConnection(cs, m, vs, as, trk) ==
  LET wired == [cs EXCEPT ![Len(cs)] = Wire(@, dataChannels)]
  IN IF NeedsMedia(m, vs, as)
       THEN [conns |-> wired, ready |-> [stage |-> "acquiring", err |-> "none"]]
       ELSE LET r == start(wired[Len(cs)], vs, as, trk)
            IN [conns |-> [wired EXCEPT ![Len(cs)] = r.conn], ready |-> Settled(r)]

\* mutant: the case 'closed' is missing from the switch
RecreatesNever(c) == FALSE

\* #onConnectionStateChange: only 'closed', read from the connection the Peer holds,
\* makes the handler replace the connection
Recreates(c) == c.connectionState = "closed"

\* a connectionstatechange event: the connection the Peer holds moves to state s
onConnectionStateChange(s) ==
  /\ ~MicrotaskPending
  /\ ~IsClosed(conns[pc]) /\ conns[pc].connectionState # s
  /\ LET cs == [conns EXCEPT ![pc].connectionState = s]
     IN /\ ~Recreates(cs[pc])
        /\ conns' = cs
  /\ UNCHANGED <<config, media, ready, calls, listeners, newListenerHook, ice, disposed, replaces, remote, acquisition, buffer>>

\* the connectionstatechange event that follows the close() of connection i: the
\* handler reads the state of the connection the Peer holds
onConnectionClosed(i) ==
  /\ ~MicrotaskPending
  /\ i \in 1..Len(conns) /\ conns[i].closeEvent /\ conns[i].handlers
  /\ LET cs == [conns EXCEPT ![i].closeEvent = FALSE]
     IN IF Recreates(cs[pc])
          THEN /\ Len(conns) < MaxConns
               /\ LET n == initPeerConnection(
                               Append(cs, NewConnection(peerconnectionConfiguration)), mode,
                               videoStream, audioStream, tracks)
                  IN /\ conns' = n.conns
                     /\ ready' = Append(ready, n.ready)
                     /\ captures' = IF NeedsMedia(mode, videoStream, audioStream)
                                      THEN Append(captures, Capture(sendSource, mediaConstraints))
                                      ELSE captures
          ELSE /\ conns' = cs
               /\ UNCHANGED <<ready, captures>>
  /\ UNCHANGED <<config, media, calls, listeners, newListenerHook, ice, disposed, replaces,
                 remote, trackCalls, buffer>>

\* the application closes the connection it got from the peerConnection getter
PcClose ==
  /\ ~IsClosed(conns[pc])
  /\ conns' = [conns EXCEPT ![pc] = Close(@)]
  /\ UNCHANGED <<config, media, ready, calls, listeners, newListenerHook, ice, disposed, replaces, remote, acquisition, buffer>>

\* dispose() returns at once on a closed connection
DisposeReturns(c) == c.connectionState = "closed"

\* mutant: only the tracks of the video stream are stopped
disposeTracksVideo(trk, as, vs) == StopAll(trk, vs.tracks)

\* dispose(): track.stop() for the tracks of the audio stream, then of the video stream
disposeTracks(trk, as, vs) == StopAll(StopAll(trk, as.tracks), vs.tracks)

\* dispose(): closes the connection, an exception of close() caught and logged,
\* stops the tracks of the held streams and removes every listener of the Peer,
\* the 'newListener' one included
dispose(closeThrows) ==
  /\ IF DisposeReturns(conns[pc])
       THEN UNCHANGED <<conns, tracks, listeners, newListenerHook, disposed>>
       ELSE /\ conns' = IF closeThrows THEN conns ELSE [conns EXCEPT ![pc] = Close(@)]
            /\ tracks' = disposeTracks(tracks, audioStream, videoStream)
            /\ listeners' = [l \in DOMAIN listeners |-> "none"]
            /\ newListenerHook' = FALSE
            /\ disposed' = IF disposed = "ready" \/ ready[Len(ready)].stage = "resolved"
                             THEN "ready" ELSE "early"
  /\ UNCHANGED <<config, videoStream, audioStream, ready, calls, ice, replaces, remote, acquisition, buffer>>

(* ------------------------- replacing the stream ----------------------- *)

\* pc.getSenders(): the senders of the transceivers, none once the connection is closed
getSenders(c) == IF IsClosed(c) THEN <<>> ELSE [i \in 1..Len(c.transceivers) |-> i]

\* mutant: only the video senders pass the filter
filterTracksTypeVideo(trk, sender, track) ==
  trk[sender.track].kind = trk[track].kind /\ trk[track].kind = "video"

\* filterTracksType, called with a track as this: the kind of the track of the
\* sender is the kind of the track
filterTracksType(trk, sender, track) == trk[sender.track].kind = trk[track].kind

\* replaceTracks(track), called with the senders as this: a sender.replaceTrack call
\* for every sender the filter lets through, the track the sender has kept to stop it
replaceTracks(c, trk, senders, track) ==
  LET passing == SelectSeq(senders,
                   LAMBDA i : filterTracksType(trk, c.transceivers[i], track))
  IN [j \in 1..Len(passing) |->
        [sender |-> passing[j], new |-> track, old |-> c.transceivers[passing[j]].track,
         state |-> "pending"]]

RECURSIVE flatMap(_, _, _, _)
\* stream.getTracks().flatMap(replaceTracks, senders)
flatMap(c, trk, senders, ts) ==
  IF ts = <<>> THEN <<>>
  ELSE replaceTracks(c, trk, senders, Head(ts)) \o flatMap(c, trk, senders, Tail(ts))

\* replaceStream(stream), the synchronous part, with a stream of new tracks of the
\* kinds given: the tracks of the held video stream are stopped, the stream is
\* adopted, and the senders are asked to replace their tracks; the filter throws a
\* TypeError at a sender that has no track
replaceStream(kinds) ==
  /\ Len(replaces) < MaxReplaces
  /\ LET all == tracks \o [i \in 1..Len(kinds) |->
                            [kind |-> kinds[i], stopped |-> FALSE, enabled |-> TRUE]]
         stream == [id |-> 20 + Len(tracks), tracks |-> [i \in 1..Len(kinds) |-> Len(tracks) + i]]
         c == conns[pc]
         senders == getSenders(c)
         throws == stream.tracks # <<>>
                   /\ \E j \in 1..Len(senders) : c.transceivers[senders[j]].track = 0
         ops == IF throws THEN <<>> ELSE flatMap(c, all, senders, stream.tracks)
     IN /\ tracks' = StopAll(all, videoStream.tracks)
        /\ videoStream' = stream
        /\ replaces' = Append(replaces,
             [ stream |-> stream, previous |-> videoStream, conn |-> pc, ops |-> ops,
               state |-> IF throws THEN "thrown"
                         ELSE IF ops = <<>> THEN "resolved" ELSE "pending" ])
  /\ UNCHANGED <<config, audioStream, conns, ready, calls, listeners, newListenerHook, ice,
                 disposed, remote, acquisition, buffer>>

Pending(r) == {j \in 1..Len(r.ops) : r.ops[j].state = "pending"}

\* the first pending sender.replaceTrack of call r settles, after those of the calls
\* made before it on the connection: the sender has the new track and the track it
\* had is stopped, or the call fails; Promise.all resolves after the last one
settleReplaceTrack(r, ok) ==
  /\ ~MicrotaskPending
  /\ r \in 1..Len(replaces) /\ Pending(replaces[r]) # {}
  /\ \A q \in 1..(r - 1) : replaces[q].conn = replaces[r].conn => Pending(replaces[q]) = {}
  /\ LET rec == replaces[r]
         j == CHOOSE x \in Pending(rec) : \A y \in Pending(rec) : x <= y
         op == rec.ops[j]
     IN IF ok /\ ~IsClosed(conns[rec.conn])
          THEN /\ conns' = [conns EXCEPT ![rec.conn].transceivers[op.sender].track = op.new]
               /\ tracks' = [tracks EXCEPT ![op.old].stopped = TRUE]
               /\ replaces' = [replaces EXCEPT ![r] =
                    [rec EXCEPT !.ops[j].state = "done",
                                !.state = IF @ = "pending" /\ Pending(rec) = {j}
                                            THEN "resolved" ELSE @]]
          ELSE /\ replaces' = [replaces EXCEPT ![r] =
                    [rec EXCEPT !.ops[j].state = "failed",
                                !.state = IF @ = "pending" THEN "rejected" ELSE @]]
               /\ UNCHANGED <<conns, tracks>>
  /\ UNCHANGED <<config, videoStream, audioStream, ready, calls, listeners, newListenerHook,
                 ice, disposed, remote, acquisition, buffer>>

(* ------------------------- replacing the track ------------------------ *)

\* what replaceTrack is called with: the name of a source, a video track of the
\* application, or nothing
Sources == {"screen", "webcam"}
TrackArguments == Sources \cup {"track", "undefined"}

\* a call of replaceTrack and the state of its promise chain
NewTrackCall(argument, state) ==
  [ argument |-> argument, state |-> state, err |-> "none", late |-> disposed,
    stream |-> NoStream, previous |-> NoStream, track |-> 0, conn |-> 0, ops |-> <<>>,
    sent |-> <<>> ]

\* mutant: the audio tracks of the stream are left running
getFirstVideoTrackOnly(trk, stream) ==
  LET video == OfKind(trk, stream.tracks, "video")
  IN [ result |-> IF video = <<>> THEN 0 ELSE Head(video),
       tracks |-> StopAll(trk, IF video = <<>> THEN <<>> ELSE Tail(video)) ]

\* getFirstVideoTrack(stream): the audio tracks of the stream and its video tracks
\* but the first are stopped; the result is the first video track, or undefined
getFirstVideoTrack(trk, stream) ==
  LET video == OfKind(trk, stream.tracks, "video")
  IN [ result |-> IF video = <<>> THEN 0 ELSE Head(video),
       tracks |-> StopAll(StopAll(trk, OfKind(trk, stream.tracks, "audio")),
                          IF video = <<>> THEN <<>> ELSE Tail(video)) ]

\* #replaceTrack(track = null) on the connection the Peer holds: with a track, a
\* sender.replaceTrack call for every sender of a track of its kind, the filter
\* throwing at a sender that has no track; without one, a call for every sender
privateReplaceTrack(call, c, trk, track) ==
  LET senders == getSenders(c)
      throws == track # 0 /\ \E j \in 1..Len(senders) : c.transceivers[senders[j]].track = 0
      ops == IF throws THEN <<>>
             ELSE IF track # 0 THEN replaceTracks(c, trk, senders, track)
             ELSE [j \in 1..Len(senders) |->
                     [sender |-> senders[j], new |-> 0, old |-> c.transceivers[senders[j]].track,
                      state |-> "pending"]]
  IN [call EXCEPT !.track = track, !.conn = pc, !.ops = ops,
                  !.sent = [j \in 1..Len(senders) |-> c.transceivers[senders[j]].track],
                  !.state = IF throws THEN "rejected"
                            ELSE IF ops = <<>> THEN "resolved" ELSE "pending",
                  !.err = IF throws THEN "TypeError" ELSE "none"]

\* replaceTrack(track), the synchronous part and, for a track or nothing, the
\* continuation of Promise.resolve(track) that follows it in the same turn; for the
\* name of a source the capture call of #getMedia is made
replaceTrack(argument) ==
  /\ Len(trackCalls) < MaxTrackCalls
  /\ IF argument \in Sources
       THEN /\ captures' = Append(captures, Capture(argument, mediaConstraints))
            /\ trackCalls' = Append(trackCalls, NewTrackCall(argument, "acquiring"))
            /\ UNCHANGED tracks
       ELSE LET all == IF argument = "track"
                         THEN Append(tracks, [kind |-> "video", stopped |-> FALSE,
                                              enabled |-> TRUE])
                         ELSE tracks
                track == IF argument = "track" THEN Len(all) ELSE 0
            IN /\ tracks' = all
               /\ trackCalls' = Append(trackCalls,
                    privateReplaceTrack(NewTrackCall(argument, "called"), conns[pc], all, track))
               /\ UNCHANGED captures
  /\ UNCHANGED <<config, videoStream, audioStream, conns, ready, calls, listeners,
                 newListenerHook, ice, disposed, replaces, remote, buffer>>

\* the capture call of a replaceTrack call settles: on success the continuation of
\* #getMedia, getFirstVideoTrack and #replaceTrack run in the same turn; on failure
\* the promise of the call rejects
replaceTrackMediaDone(r, ok) ==
  /\ ~MicrotaskPending
  /\ r \in 1..Len(trackCalls) /\ trackCalls[r].state = "acquiring"
  /\ LET call == trackCalls[r]
     IN IF ok /\ AcquiredKinds(call.argument, mediaConstraints) # <<>>
          THEN LET g == getMedia(call.argument, videoStream, tracks, mediaConstraints)
                   first == getFirstVideoTrack(g.tracks, g.stream)
               IN /\ videoStream' = g.stream
                  /\ tracks' = first.tracks
                  /\ trackCalls' = [trackCalls EXCEPT ![r] =
                       privateReplaceTrack(
                         [call EXCEPT !.stream = g.stream, !.previous = videoStream],
                         conns[pc], first.tracks, first.result)]
          ELSE /\ trackCalls' = [trackCalls EXCEPT ![r] =
                                   [call EXCEPT !.state = "rejected", !.err = "getMedia"]]
               /\ UNCHANGED <<videoStream, tracks>>
  /\ UNCHANGED <<config, audioStream, conns, ready, calls, listeners, newListenerHook, ice,
                 disposed, replaces, remote, captures, buffer>>

PendingOps(call) == {j \in 1..Len(call.ops) : call.ops[j].state = "pending"}

\* replaceTrack(sender): the first pending sender.replaceTrack of replaceTrack call r
\* settles; the sender has the new track and the track it had, if any, is stopped,
\* or the call fails; Promise.all resolves after the last one
settleSenderReplaceTrack(r, ok) ==
  /\ ~MicrotaskPending
  /\ r \in 1..Len(trackCalls) /\ trackCalls[r].state \in {"pending", "rejected"}
  /\ PendingOps(trackCalls[r]) # {}
  /\ LET call == trackCalls[r]
         j == CHOOSE x \in PendingOps(call) : \A y \in PendingOps(call) : x <= y
         op == call.ops[j]
     IN IF ok /\ ~IsClosed(conns[call.conn])
          THEN /\ conns' = [conns EXCEPT ![call.conn].transceivers[op.sender].track = op.new]
               /\ tracks' = IF op.old = 0 THEN tracks
                             ELSE [tracks EXCEPT ![op.old].stopped = TRUE]
               /\ trackCalls' = [trackCalls EXCEPT ![r] =
                    [call EXCEPT !.ops[j].state = "done",
                                 !.state = IF @ = "pending" /\ PendingOps(call) = {j}
                                             THEN "resolved" ELSE @]]
          ELSE /\ trackCalls' = [trackCalls EXCEPT ![r] =
                    [call EXCEPT !.ops[j].state = "failed",
                                 !.state = IF @ = "pending" THEN "rejected" ELSE @]]
               /\ UNCHANGED <<conns, tracks>>
  /\ UNCHANGED <<config, videoStream, audioStream, ready, calls, listeners, newListenerHook,
                 ice, disposed, replaces, remote, captures, buffer>>

(* ------------------------ enabling and disabling ---------------------- *)

RECURSIVE ScanEnabled(_, _, _, _)
\* for (const {track} of senders) if(track.kind === type && !track.enabled) return
\* false: reading the kind of the track of a sender without a track throws
ScanEnabled(c, trk, senders, type) ==
  IF senders = <<>> THEN "true"
  ELSE LET track == c.transceivers[Head(senders)].track
       IN IF track = 0 THEN "TypeError"
          ELSE IF trk[track].kind = type /\ ~trk[track].enabled THEN "false"
          ELSE ScanEnabled(c, trk, Tail(senders), type)

\* getMediaEnabled(type): undefined without senders
getMediaEnabled(c, trk, type) ==
  IF getSenders(c) = <<>> THEN "undefined" ELSE ScanEnabled(c, trk, getSenders(c), type)

\* get enabled: this.audioEnabled && this.videoEnabled
getEnabled(c, trk) ==
  IF getMediaEnabled(c, trk, "audio") = "true" THEN getMediaEnabled(c, trk, "video")
  ELSE getMediaEnabled(c, trk, "audio")

RECURSIVE setMediaEnabled(_, _, _, _, _)
\* setMediaEnabled(type, value): for (const {track} of senders) if(track.kind ===
\* type) track.enabled = value, up to a sender without a track, where it throws
setMediaEnabled(c, trk, senders, type, value) ==
  IF senders = <<>> THEN [tracks |-> trk, err |-> "none"]
  ELSE LET track == c.transceivers[Head(senders)].track
       IN IF track = 0 THEN [tracks |-> trk, err |-> "TypeError"]
          ELSE setMediaEnabled(c,
                 IF trk[track].kind = type THEN [trk EXCEPT ![track].enabled = value] ELSE trk,
                 Tail(senders), type, value)

\* set audioEnabled(value) and set videoEnabled(value)
setOneEnabled(type, value) ==
  /\ tracks' = setMediaEnabled(conns[pc], tracks, getSenders(conns[pc]), type, value).tracks
  /\ UNCHANGED <<config, videoStream, audioStream, conns, ready, calls, listeners,
                 newListenerHook, ice, disposed, replaces, remote, acquisition, buffer>>

\* set enabled(value): this.audioEnabled = this.videoEnabled = value, the video
\* first; a throw of the first setter leaves the second one out
setEnabled(value) ==
  /\ LET video == setMediaEnabled(conns[pc], tracks, getSenders(conns[pc]), "video", value)
     IN tracks' = IF video.err # "none" THEN video.tracks
                  ELSE setMediaEnabled(conns[pc], video.tracks, getSenders(conns[pc]),
                                       "audio", value).tracks
  /\ UNCHANGED <<config, videoStream, audioStream, conns, ready, calls, listeners,
                 newListenerHook, ice, disposed, replaces, remote, acquisition, buffer>>

(* ---------------------- candidate queue and events -------------------- *)

\* EventEmitter.listenerCount(this, event)
listenerCount(event) == Cardinality({l \in DOMAIN listeners : listeners[l] = event})

RECURSIVE Invocations(_, _, _)
\* emit(event, candidate) invokes the listeners of the event, in registration order
Invocations(ls, event, candidate) ==
  IF ls = {} THEN <<>>
  ELSE LET l == CHOOSE x \in ls : \A y \in ls : x <= y
       IN <<[listener |-> l, event |-> event, candidate |-> candidate]>>
          \o Invocations(ls \ {l}, event, candidate)

Emit(event, candidate) ==
  Invocations({l \in DOMAIN listeners : listeners[l] = event}, event, candidate)

\* mutant: nothing is emitted while a negotiation is going on
ListeningWhenStable ==
  /\ listenerCount("icecandidate") > 0 \/ listenerCount("candidategatheringdone") > 0
  /\ conns[pc].signalingState = "stable"

\* #onIcecandidate takes the emitting branch
Listening == listenerCount("icecandidate") > 0 \/ listenerCount("candidategatheringdone") > 0

\* the candidates of the events so far that were not null
RealCandidates(s) == SelectSeq(s, LAMBDA c : c # NullCandidate)
Nulls(s) == SelectSeq(s, LAMBDA c : c = NullCandidate)

\* mutant: the flag is not consulted
GatheringDoneAlwaysArmed == TRUE

\* a null candidate is signalled or queued only while the flag is not set
GatheringDoneArmed == ~candidategatheringdone

\* #onIcecandidate({candidate}): the connection the Peer holds produced a candidate
onIcecandidate(candidate) ==
  /\ ~MicrotaskPending
  /\ ~IsClosed(conns[pc]) /\ conns[pc].handlers
  /\ produced' = Append(produced, candidate)
  /\ IF Listening
       THEN IF candidate # NullCandidate
              THEN /\ emitted' = Append(emitted, [event |-> "icecandidate", candidate |-> candidate])
                   /\ delivered' = delivered \o Emit("icecandidate", candidate)
                   /\ candidategatheringdone' = FALSE
                   /\ UNCHANGED candidatesQueueOut
            ELSE IF GatheringDoneArmed
              THEN /\ emitted' = Append(emitted, [event |-> "candidategatheringdone",
                                                  candidate |-> NullCandidate])
                   /\ delivered' = delivered \o Emit("candidategatheringdone", NullCandidate)
                   /\ candidategatheringdone' = TRUE
                   /\ UNCHANGED candidatesQueueOut
            ELSE UNCHANGED <<candidatesQueueOut, candidategatheringdone, delivered, emitted>>
     ELSE IF GatheringDoneArmed
       THEN /\ candidatesQueueOut' = Append(candidatesQueueOut, candidate)
            /\ candidategatheringdone' = (candidate = NullCandidate)
            /\ UNCHANGED <<delivered, emitted>>
     ELSE UNCHANGED <<candidatesQueueOut, candidategatheringdone, delivered, emitted>>
  /\ UNCHANGED <<config, media, conns, ready, calls, listeners, newListenerHook, disposed, replaces, remote, acquisition, buffer>>

\* #onNewListener: the early return
onNewListenerReturns(event) ==
  LET iscandidategatheringdone == (event = "candidategatheringdone")
  IN iscandidategatheringdone /\ event # "icecandidate"

\* mutant: the filter inverted
onNewListenerPassesInverted(event, candidate) ==
  LET iscandidategatheringdone == (event = "candidategatheringdone")
  IN (candidate # NullCandidate) = iscandidategatheringdone

\* #onNewListener: whether a shifted candidate is handed to the listener
onNewListenerPasses(event, candidate) ==
  LET iscandidategatheringdone == (event = "candidategatheringdone")
  IN (candidate = NullCandidate) = iscandidategatheringdone

\* #onNewListener: whether the loop goes on after shifting a candidate
onNewListenerLoops(candidate) == candidate # NullCandidate

RECURSIVE Replay(_, _, _, _)
\* while ((candidate = queue.shift())) if (...) listener(candidate)
Replay(queue, event, listener, out) ==
  IF queue = <<>> THEN [queue |-> <<>>, out |-> out]
  ELSE LET candidate == Head(queue)
       IN IF ~onNewListenerLoops(candidate)
            THEN [queue |-> Tail(queue), out |-> out]
            ELSE Replay(Tail(queue), event, listener,
                   IF onNewListenerPasses(event, candidate)
                     THEN Append(out, [listener |-> listener, event |-> event,
                                       candidate |-> candidate])
                     ELSE out)

\* #onNewListener(event, listener)
onNewListener(event, listener) ==
  IF onNewListenerReturns(event)
    THEN [queue |-> candidatesQueueOut, out |-> <<>>]
    ELSE Replay(candidatesQueueOut, event, listener, <<>>)

\* peer.on(event, listener): 'newListener' is emitted before the listener is added
on(event, listener) ==
  /\ listeners[listener] = "none"
  /\ LET r == IF newListenerHook THEN onNewListener(event, listener)
                                 ELSE [queue |-> candidatesQueueOut, out |-> <<>>]
     IN /\ candidatesQueueOut' = r.queue
        /\ delivered' = delivered \o r.out
  /\ listeners' = [listeners EXCEPT ![listener] = event]
  /\ UNCHANGED <<config, media, conns, ready, calls, newListenerHook,
                 candidategatheringdone, produced, emitted, disposed, replaces,
                 remote, acquisition, buffer>>

\* peer.removeListener(event, listener)
removeListener(listener) ==
  /\ listeners[listener] # "none"
  /\ listeners' = [listeners EXCEPT ![listener] = "none"]
  /\ UNCHANGED <<config, media, conns, ready, calls, newListenerHook, ice, disposed, replaces, remote, acquisition, buffer>>

(* ------------------------------ simulcast ----------------------------- *)

\* mutant: the SDP is not cut
removeFIDFromOfferKeeps(sdp) == sdp

\* removeFIDFromOffer(sdp): the SDP cut at the first a=ssrc-group:FID
removeFIDFromOffer(sdp) ==
  LET at == {i \in 1..Len(sdp) : sdp[i].l = "FID"}
  IN IF at = {} THEN sdp
     ELSE SubSeq(sdp, 1, (CHOOSE i \in at : \A j \in at : i <= j) - 1)

SsrcLines(n, sid, tid) ==
  << [l |-> "cname", ssrc |-> n, stream |-> 0, track |-> 0],
     [l |-> "msid", ssrc |-> n, stream |-> sid, track |-> tid],
     [l |-> "mslabel", ssrc |-> n, stream |-> sid, track |-> 0],
     [l |-> "label", ssrc |-> n, stream |-> 0, track |-> tid] >>

\* #getSimulcastInfo(videoStream): empty without video tracks
getSimulcastInfo(vs, trk) ==
  LET videoTracks == OfKind(trk, vs.tracks, "video")
  IN IF videoTracks = <<>> THEN <<>>
     ELSE Lines(<<"conference", "SIM">>)
          \o SsrcLines(1, vs.id, videoTracks[1]) \o SsrcLines(2, vs.id, videoTracks[1])
          \o SsrcLines(3, vs.id, videoTracks[1])

\* mutant: the runtime is not looked at
ManglesWhenAsked(sim, planB) == sim

\* #setLocalDescription mangles only with simulcast on a Plan B runtime
Mangles(sim, planB) == sim /\ planB

\* #setLocalDescription(localDescription), up to the call of pc.setLocalDescription:
\* reading the video tracks of a stream the Peer does not hold throws
Mangled(desc, sim, planB, vs, trk) ==
  IF ~Mangles(sim, planB) THEN [desc |-> desc, err |-> "none"]
  ELSE IF vs = NoStream THEN [desc |-> desc, err |-> "TypeError"]
  ELSE [desc |-> [type |-> desc.type,
                  sdp |-> removeFIDFromOffer(desc.sdp) \o getSimulcastInfo(vs, trk)],
        err |-> "none"]

(* ----------------------------- negotiation ---------------------------- *)

InFlight == {"createOffer", "createAnswer", "setRemoteDescription", "setLocalDescription"}

Entry(op, i) == [op |-> op, conn |-> i]

\* a call of a public negotiation method and the state of its promise chain;
\* callback: the deprecated callback argument, once asCallback attached it
NewCall(op, step, target, desc, log, err, callback) ==
  [ op |-> op, step |-> step, conn |-> pc, target |-> target, desc |-> desc,
    log |-> log, err |-> err, result |-> <<>>, late |-> disposed,
    callback |-> callback, created |-> NoDesc ]

\* mutant: the failure is swallowed and the chain ends as a success
RejectSwallowed(call, err) == [call EXCEPT !.step = "resolved", !.err = err]

\* a rejection of the chain: every later .then(f) is skipped
Reject(call, err) == [call EXCEPT !.step = "rejected", !.err = err]

\* mutant: the guard left out
ClosedGuardMissing(c) == FALSE

\* the guard at the top of processAnswer and processOffer
ClosedGuard(c) == c.connectionState = "closed"

\* an operation invoked on a closed connection returns a rejected promise
Invoke(call, cs, op, target, desc) ==
  IF IsClosed(cs[target])
    THEN [call EXCEPT !.step = "rejected", !.err = "InvalidStateError", !.desc = desc,
                      !.target = target, !.log = Append(@, Entry(op, target))]
    ELSE [call EXCEPT !.step = op, !.desc = desc, !.target = target,
                      !.log = Append(@, Entry(op, target))]

\* asCallback(promise, callback), the promise the method returns: without a
\* callback the chain itself; with one, promise.then(callback.bind(null, null),
\* callback), which hands the outcome to the callback and fulfils when it returns
asCallback(call) ==
  IF call.callback /\ call.step \in {"resolved", "rejected"}
    THEN [ state |-> "resolved", err |-> "none",
           args |-> IF call.step = "rejected" THEN <<call.err>> ELSE <<"null", "sdp">> ]
    ELSE [ state |-> IF call.step \in {"resolved", "rejected", "thrown"}
                       THEN call.step ELSE "pending",
           err |-> call.err, args |-> <<>> ]

\* processAnswer(sdp, callback) and processOffer(sdp, callback), the synchronous
\* part; the guard returns its rejection before asCallback is reached
process(op, type, sdp, callback) ==
  /\ Len(calls) < MaxCalls
  /\ calls' = Append(calls,
       IF ClosedGuard(conns[pc])
         THEN NewCall(op, "rejected", pc, NoDesc, <<>>, "PeerConnection is closed", FALSE)
         ELSE Invoke(NewCall(op, "called", pc, NoDesc, <<>>, "none", callback), conns,
                     "setRemoteDescription", pc, [type |-> type, sdp |-> sdp]))
  /\ UNCHANGED <<config, media, conns, ready, listeners, newListenerHook, ice, disposed, replaces, remote, acquisition, buffer>>

processAnswer(sdp, callback) == process("processAnswer", "answer", sdp, callback)

processOffer(sdp, callback) == process("processOffer", "offer", sdp, callback)

\* mutant: constraint === true
useMediaStrict(constraint) == constraint = "true"

\* typeof constraint === 'boolean' ? constraint : true
useMedia(constraint) == IF constraint \in {"true", "false"} THEN constraint = "true" ELSE TRUE

\* mutant: the direction left as it was
OfferDirectionKept(tr) == tr.direction

\* the direction generateOffer gives the transceivers in 'sendonly' mode
OfferDirection(tr) == "sendonly"

\* mutant: the errors of the closed connection are caught and the switch goes on
OfferSetupSwallows(c, m, mc) ==
  LET kinds == IF m = "recvonly" THEN <<"audio", "video">> ELSE <<>>
      added == [i \in 1..Len(kinds) |-> [kind |-> kinds[i], direction |-> "recvonly", track |-> 0]]
  IN [conn |-> [c EXCEPT !.transceivers =
                  [i \in 1..Len(@) |-> [@[i] EXCEPT !.direction =
                     IF m = "sendonly" THEN "sendonly" ELSE @]] \o added],
      err |-> "none"]

\* generateOffer, the switch on the mode: a closed connection throws at the first
\* addTransceiver or at the first direction it is asked to set
OfferSetup(c, m, mc) ==
  LET kinds == IF m = "recvonly"
                 THEN (IF useMedia(mc.audio) THEN <<"audio">> ELSE <<>>)
                      \o (IF useMedia(mc.video) THEN <<"video">> ELSE <<>>)
                 ELSE <<>>
      touched == Len(kinds) > 0 \/ (m = "sendonly" /\ Len(c.transceivers) > 0)
      added == [i \in 1..Len(kinds) |-> [kind |-> kinds[i], direction |-> "recvonly", track |-> 0]]
  IN IF touched /\ IsClosed(c) THEN [conn |-> c, err |-> "InvalidStateError"]
     ELSE IF m = "recvonly"
       THEN [conn |-> [c EXCEPT !.transceivers = @ \o added], err |-> "none"]
     ELSE IF m = "sendonly"
       THEN [conn |-> [c EXCEPT !.transceivers =
                         [i \in 1..Len(c.transceivers) |->
                            [c.transceivers[i] EXCEPT
                               !.direction = OfferDirection(c.transceivers[i])]]],
             err |-> "none"]
     ELSE [conn |-> c, err |-> "none"]

\* generateOffer(callback), the synchronous part, among at most limit negotiation
\* calls; a throw of the switch leaves the method before asCallback is reached
generateOfferWithin(limit, callback) ==
  /\ Len(calls) < limit
  /\ LET setup == OfferSetup(conns[pc], mode, mediaConstraints)
         cs == [conns EXCEPT ![pc] = setup.conn]
     IN /\ conns' = cs
        /\ calls' = Append(calls,
             IF setup.err # "none"
               THEN NewCall("generateOffer", "thrown", pc, NoDesc, <<>>, setup.err, FALSE)
               ELSE Invoke(NewCall("generateOffer", "called", pc, NoDesc, <<>>, "none", callback),
                           cs, "createOffer", pc, NoDesc))
  /\ UNCHANGED <<config, media, ready, listeners, newListenerHook, ice, disposed, replaces, remote, acquisition, buffer>>

generateOffer(callback) == generateOfferWithin(MaxCalls, callback)

\* the SDP createOffer and createAnswer produce: a section for each kind, and
\* SSRC groups or not
CreatedSdp(kinds, fid) ==
  Lines((IF "audio" \in kinds THEN <<"mA">> ELSE <<>>)
        \o (IF "video" \in kinds THEN <<"mV">> ELSE <<>>)
        \o (IF fid THEN <<"FID", "ssrc">> ELSE <<>>))

TransceiverKinds(c) == {c.transceivers[i].kind : i \in 1..Len(c.transceivers)}

\* .then(this.#setLocalDescription): the description createOffer or createAnswer
\* resolved with (kept in created) is mangled and set on the connection the Peer
\* holds when the continuation runs
thenSetLocalDescription(call, cs, desc) ==
  LET m == Mangled(desc, simulcast, usePlanB, videoStream, tracks)
      logged == [call EXCEPT !.log = Append(@, Entry("mangle", Len(cs))), !.created = desc]
  IN IF m.err # "none" THEN Reject(logged, m.err)
     ELSE Invoke(logged, cs, "setLocalDescription", Len(cs), m.desc)

\* the last continuation: the SDP of the local description of the connection held
thenResolve(call, cs) ==
  LET ld == cs[Len(cs)].localDescription
  IN IF ld = NoDesc THEN Reject(call, "TypeError")
     ELSE [call EXCEPT !.step = "resolved", !.result = ld.sdp,
                       !.log = Append(@, Entry("resolve", Len(cs)))]

\* mutant: the chain of processOffer ends after the remote description, as
\* the one of processAnswer
thenSetRemoteVideoEnds(call, cs) ==
  [call EXCEPT !.step = "resolved",
               !.log = @ \o <<Entry("setRemoteVideo", Len(cs)), Entry("resolve", Len(cs))>>]

\* .then(this.#setRemoteVideo) and what follows it
thenSetRemoteVideo(call, cs) ==
  LET wired == [call EXCEPT !.log = Append(@, Entry("setRemoteVideo", Len(cs)))]
  IN IF call.op = "processAnswer"
       THEN [wired EXCEPT !.step = "resolved",
                          !.log = Append(@, Entry("resolve", Len(cs)))]
       ELSE Invoke(wired, cs, "createAnswer", call.conn, NoDesc)

\* the receivers of a connection: none once it is closed
Receivers(c) == IF IsClosed(c) THEN {} ELSE 1..Len(c.transceivers)

\* #setRemoteVideo, after the old sink was stopped: a sink on the track of the first
\* video receiver of the connection the Peer holds, the last frame kept; without
\* such a receiver both are reset
setRemoteVideo(cs, frame) ==
  LET video == {i \in Receivers(cs[Len(cs)]) : cs[Len(cs)].transceivers[i].kind = "video"}
  IN IF video # {}
       THEN [ videoSink |-> [conn |-> Len(cs),
                             receiver |-> CHOOSE i \in video : \A j \in video : i <= j],
              lastFrame |-> frame ]
       ELSE [ videoSink |-> NoSink, lastFrame |-> NoFrame ]

\* whether the operation in flight can succeed on its connection
CanSucceed(call, c) ==
  CASE call.step = "setRemoteDescription" -> ~IsClosed(c) /\ CanSetRemote(c, call.desc.type)
    [] call.step = "setLocalDescription" -> ~IsClosed(c) /\ CanSetLocal(c, call.desc.type)
    [] call.step = "createAnswer" -> c.remoteDescription.type = "offer"
    [] call.step = "createOffer" -> TRUE

Done(call) == [call EXCEPT !.log = Append(@, Entry("ok", call.target))]

\* the created SDP has SSRC groups only for a video track the connection sends
SendsVideo(c, trk) ==
  \E i \in 1..Len(c.transceivers) :
    c.transceivers[i].track # 0 /\ trk[c.transceivers[i].track].kind = "video"

\* the operation in flight of call k settles; a rejection skips every later step
settle(k, ok, fid) ==
  /\ ~MicrotaskPending
  /\ k \in 1..Len(calls) /\ calls[k].step \in InFlight
  /\ fid => SendsVideo(conns[calls[k].target], tracks)
  /\ LET call == calls[k]
         c == conns[call.target]
     IN IF ~(ok /\ CanSucceed(call, c))
          THEN /\ calls' = [calls EXCEPT ![k] = Reject(call, "OperationError")]
               /\ UNCHANGED <<conns, remote>>
        ELSE IF call.step = "setRemoteDescription"
          THEN LET cs == [conns EXCEPT ![call.target] = SetRemoteDescription(c, call.desc)]
                   wired == setRemoteVideo(cs, lastFrame)
               IN /\ conns' = cs
                  /\ videoSink' = wired.videoSink
                  /\ lastFrame' = wired.lastFrame
                  /\ calls' = [calls EXCEPT ![k] = thenSetRemoteVideo(Done(call), cs)]
        ELSE IF call.step = "setLocalDescription"
          THEN LET cs == [conns EXCEPT ![call.target] = SetLocalDescription(c, call.desc)]
               IN /\ conns' = cs
                  /\ calls' = [calls EXCEPT ![k] = thenResolve(Done(call), cs)]
                  /\ UNCHANGED remote
        ELSE IF call.step = "createAnswer"
          THEN /\ calls' = [calls EXCEPT ![k] = thenSetLocalDescription(Done(call), conns,
                              [type |-> "answer",
                               sdp |-> CreatedSdp(SdpKinds(c.remoteDescription.sdp), fid)])]
               /\ UNCHANGED <<conns, remote>>
        ELSE /\ calls' = [calls EXCEPT ![k] = thenSetLocalDescription(Done(call), conns,
                              [type |-> "offer",
                               sdp |-> CreatedSdp(TransceiverKinds(c), fid)])]
             /\ UNCHANGED <<conns, remote>>
  /\ UNCHANGED <<config, media, ready, listeners, newListenerHook, ice, disposed, replaces,
                 acquisition, buffer>>

(* ---------------------------- data channel --------------------------- *)

\* the readyState of a data channel moves on: connecting, open, closing, closed
ChannelNext(state) ==
  CASE state = "connecting" -> {"open", "closed"}
    [] state = "open" -> {"closing", "closed"}
    [] state = "closing" -> {"closed"}
    [] OTHER -> {}

ChannelState(state) ==
  /\ ~MicrotaskPending
  /\ ~IsClosed(conns[pc])
  /\ state \in ChannelNext(conns[pc].channel.readyState)
  /\ conns' = [conns EXCEPT ![pc].channel.readyState = state]
  /\ UNCHANGED <<config, media, ready, calls, listeners, newListenerHook, ice, disposed,
                 replaces, remote, acquisition, buffer>>

\* mutant: every channel that exists is sent on
sendForwardsAny(channel) == channel.readyState # "undefined"

\* send: this.#dataChannel?.readyState === 'open'
sendForwards(channel) == channel.readyState = "open"

\* send(data): forwarded to the data channel, or refused with a warning
send(data) ==
  /\ Len(conns[pc].channel.sent) + Len(conns[pc].channel.refused) < MaxSends
  /\ conns' = IF sendForwards(conns[pc].channel)
                THEN [conns EXCEPT ![pc].channel.sent = Append(@, data)]
                ELSE [conns EXCEPT ![pc].channel.refused = Append(@, data)]
  /\ UNCHANGED <<config, media, ready, calls, listeners, newListenerHook, ice, disposed,
                 replaces, remote, acquisition, buffer>>

(* ---------------------- buffer of remote candidates ------------------- *)

MaxCandidates == 3

\* the RTCPeerConnection handed to bufferizeCandidates(pc): its signaling state and
\* whether it has a current and a pending remote description
NewBufferPc == [signalingState |-> "stable", current |-> FALSE, pending |-> FALSE]

\* pc.remoteDescription: the pending remote description, or else the current one
remoteDescription(c) == c.pending \/ c.current

\* the changes of the signaling state of a connection: descriptions set, rolled back
SignalingOps == {"setLocalOffer", "setRemoteOffer", "setLocalAnswer", "setRemoteAnswer",
                 "rollback"}

SignalingNext(c, op) ==
  CASE op = "setLocalOffer" /\ c.signalingState = "stable" ->
         [c EXCEPT !.signalingState = "have-local-offer"]
    [] op = "setRemoteOffer" /\ c.signalingState = "stable" ->
         [c EXCEPT !.signalingState = "have-remote-offer", !.pending = TRUE]
    [] op = "setLocalAnswer" /\ c.signalingState = "have-remote-offer" ->
         [c EXCEPT !.signalingState = "stable", !.current = TRUE, !.pending = FALSE]
    [] op = "setRemoteAnswer" /\ c.signalingState = "have-local-offer" ->
         [c EXCEPT !.signalingState = "stable", !.current = TRUE, !.pending = FALSE]
    [] op = "rollback" /\ c.signalingState \in {"have-local-offer", "have-remote-offer"} ->
         [c EXCEPT !.signalingState = "stable", !.pending = FALSE]
    [] OTHER -> c

AddCall(candidate, c) ==
  [candidate |-> candidate, signalingState |-> c.signalingState,
   remoteDescription |-> remoteDescription(c)]

\* signalingstatechangeFunction: if (pc.signalingState === 'stable')
flushes(c) == c.signalingState = "stable"

\* the signaling state of the connection changes and signalingstatechangeFunction
\* runs: in 'stable' every queued candidate is shifted and added
signalingstatechange(op) ==
  /\ SignalingNext(bufferPc, op) # bufferPc
  /\ bufferPc' = SignalingNext(bufferPc, op)
  /\ IF flushes(bufferPc')
       THEN /\ addCalls' = addCalls \o [i \in 1..Len(candidatesQueue) |->
                                    AddCall(candidatesQueue[i], bufferPc')]
            /\ candidatesQueue' = <<>>
       ELSE UNCHANGED <<addCalls, candidatesQueue>>
  /\ UNCHANGED <<config, media, conns, ready, calls, listeners, newListenerHook, ice, disposed,
                 replaces, remote, acquisition, submitted, refusals>>

\* pc.close(): the signaling state is 'closed' and no event is fired
closeBufferPc ==
  /\ bufferPc.signalingState # "closed"
  /\ bufferPc' = [bufferPc EXCEPT !.signalingState = "closed"]
  /\ UNCHANGED <<config, media, conns, ready, calls, listeners, newListenerHook, ice, disposed,
                 replaces, remote, acquisition, candidatesQueue, submitted, addCalls, refusals>>

\* case 'stable': if (pc.remoteDescription)
addsAtOnce(c) == c.signalingState = "stable" /\ remoteDescription(c)

\* the function bufferizeCandidates returns, called with the next candidate:
\* the switch on pc.signalingState
bufferedAddIceCandidate ==
  /\ submitted < MaxCandidates
  /\ submitted' = submitted + 1
  /\ IF bufferPc.signalingState = "closed"
       THEN /\ refusals' = Append(refusals, submitted')
            /\ UNCHANGED <<addCalls, candidatesQueue>>
     ELSE IF addsAtOnce(bufferPc)
       THEN /\ addCalls' = Append(addCalls, AddCall(submitted', bufferPc))
            /\ UNCHANGED <<refusals, candidatesQueue>>
     ELSE /\ candidatesQueue' = Append(candidatesQueue, submitted')
          /\ UNCHANGED <<refusals, addCalls>>
  /\ UNCHANGED <<config, media, conns, ready, calls, listeners, newListenerHook, ice, disposed,
                 replaces, remote, acquisition, bufferPc>>

(* ---------------------------- remote video --------------------------- *)

\* #onFrame({frame}): the sink delivers a frame of the track of its receiver, as
\* long as the connection of the receiver is not closed
onFrame ==
  /\ ~MicrotaskPending
  /\ videoSink # NoSink /\ ~IsClosed(conns[videoSink.conn])
  /\ lastFrame' = [conn |-> videoSink.conn, receiver |-> videoSink.receiver]
  /\ UNCHANGED <<config, media, conns, ready, calls, listeners, newListenerHook, ice,
                 disposed, replaces, videoSink, acquisition, buffer>>

\* get currentFrame, in Node.js: the error without a last frame, else the frame
currentFrame(frame) ==
  IF frame = NoFrame THEN "No remote video stream available" ELSE "canvas"

(* --------------------------- specifications --------------------------- *)

Constraints == {"true", "false", "object"}
DefaultConstraints == [audio |-> "true", video |-> "object"]

\* the state after new WebRtcPeerCore(mode, options): the connection was created,
\* #initPeerConnection ran, and the continuation of the readiness promise is pending
ConstructedAs(m, mc, sim, planB, source, vs, as, channels, configuration) ==
  /\ mode = m
  /\ dataChannels = channels
  /\ peerconnectionConfiguration = configuration
  /\ mediaConstraints = mc
  /\ simulcast = sim /\ usePlanB = planB
  /\ sendSource = source
  /\ videoStream = vs
  /\ audioStream = as
  /\ tracks = AppTracks
  /\ conns = <<Wire(NewConnection(configuration), channels)>>
  /\ ready = << [stage |-> IF NeedsMedia(m, vs, as) THEN "acquiring" ELSE "start",
                 err |-> "none"] >>
  /\ calls = <<>>
  /\ listeners = [l \in 1..MaxListeners |-> "none"]
  /\ newListenerHook = TRUE
  /\ candidatesQueueOut = <<>>
  /\ candidategatheringdone = FALSE
  /\ produced = <<>>
  /\ delivered = <<>>
  /\ emitted = <<>>
  /\ disposed = "no"
  /\ replaces = <<>>
  /\ lastFrame = NoFrame
  /\ videoSink = NoSink
  /\ captures = IF NeedsMedia(m, vs, as) THEN <<Capture(source, mc)>> ELSE <<>>
  /\ trackCalls = <<>>
  /\ bufferPc = NewBufferPc
  /\ candidatesQueue = <<>>
  /\ submitted = 0
  /\ addCalls = <<>>
  /\ refusals = <<>>

ConstructedWith(m, mc, sim, source, vs, as, channels, configuration) ==
  ConstructedAs(m, mc, sim, sim, source, vs, as, channels, configuration)

Constructed(m, mc, sim, source, vs, as) ==
  ConstructedWith(m, mc, sim, source, vs, as, FALSE, "stun")

Negotiation ==
  \/ \E sdp \in SdpSet, callback \in BOOLEAN : processAnswer(sdp, callback)
  \/ \E sdp \in SdpSet, callback \in BOOLEAN : processOffer(sdp, callback)
  \/ \E callback \in BOOLEAN : generateOffer(callback)
  \/ \E k \in 1..MaxCalls, ok \in BOOLEAN, fid \in BOOLEAN : settle(k, ok, fid)

Candidates ==
  \/ /\ Len(produced) < MaxEvents
     /\ onIcecandidate(Len(RealCandidates(produced)) + 1)
  \/ /\ Len(produced) < MaxEvents
     /\ onIcecandidate(NullCandidate)
  \/ \E l \in 1..MaxListeners, e \in Events : on(e, l)
  \/ \E l \in 1..MaxListeners : removeListener(l)

\* negotiation, disposal and the recreation of a closed connection: a receive-only
\* Peer, sending Peers given an audio stream, and a simulcast Peer given a video stream
InitNeg ==
  \/ Constructed("recvonly", DefaultConstraints, FALSE, "webcam", NoStream, NoStream)
  \/ Constructed("sendonly", DefaultConstraints, FALSE, "webcam", NoStream, AppAudioStream)
  \/ Constructed("sendrecv", DefaultConstraints, FALSE, "webcam", NoStream, AppAudioStream)
  \/ Constructed("sendrecv", DefaultConstraints, TRUE, "webcam", AppVideoStream, NoStream)

NextNeg ==
  \/ Start
  \/ \E i \in 1..MaxConns : onConnectionClosed(i)
  \/ dispose(FALSE)
  \/ Negotiation

SpecNeg == InitNeg /\ [][NextNeg]_vars

\* offer generation under every media constraint
InitOffer ==
  \/ \E mc \in [audio : Constraints, video : Constraints] :
       Constructed("recvonly", mc, FALSE, "webcam", NoStream, NoStream)
  \/ Constructed("sendonly", DefaultConstraints, FALSE, "webcam", NoStream, AppAudioStream)
  \/ Constructed("sendrecv", DefaultConstraints, FALSE, "webcam", AppVideoStream, AppAudioStream)

NextOffer ==
  \/ Start
  \/ dispose(FALSE)
  \/ Negotiation

SpecOffer == InitOffer /\ [][NextOffer]_vars

\* candidate queueing and delivery on a receive-only Peer
InitIce == Constructed("recvonly", DefaultConstraints, FALSE, "webcam", NoStream, NoStream)

NextIce ==
  \/ Start
  \/ dispose(FALSE)
  \/ Candidates

SpecIce == InitIce /\ [][NextIce]_vars

\* the life cycle of the connection: its state events, its closing by the
\* application or by dispose(), its recreation, media acquisition and readiness
InitLife ==
  \E m \in Modes, vs \in {NoStream, AppVideoStream}, as \in {NoStream, AppAudioStream},
     channels \in BOOLEAN, configuration \in Configurations :
    ConstructedWith(m, DefaultConstraints, FALSE, "webcam", vs, as, channels, configuration)

NextLife ==
  \/ Start
  \/ \E i \in 1..MaxConns, ok \in BOOLEAN : GetMediaDone(i, ok)
  \/ \E s \in {"connected", "disconnected", "failed"} : onConnectionStateChange(s)
  \/ \E i \in 1..MaxConns : onConnectionClosed(i)
  \/ PcClose
  \/ \E closeThrows \in BOOLEAN : dispose(closeThrows)
  \/ \E l \in 1..MaxListeners, e \in Events : on(e, l)

SpecLife == InitLife /\ [][NextLife]_vars

StreamKinds == { <<>>, <<"video">>, <<"video", "audio">> }

Replacing ==
  \/ \E kinds \in StreamKinds : replaceStream(kinds)
  \/ \E r \in 1..MaxReplaces, ok \in BOOLEAN : settleReplaceTrack(r, ok)

\* the local media of a Peer: the streams given at construction, replaced while
\* the connection is used, closed by dispose() and recreated
InitMedia ==
  \/ Constructed("sendonly", DefaultConstraints, FALSE, "webcam", NoStream, AppAudioStream)
  \/ Constructed("sendrecv", DefaultConstraints, FALSE, "webcam", AppVideoStream, AppAudioStream)
  \/ Constructed("recvonly", DefaultConstraints, FALSE, "webcam", NoStream, NoStream)

NextMedia ==
  \/ Start
  \/ \E i \in 1..MaxConns : onConnectionClosed(i)
  \/ dispose(FALSE)
  \/ Replacing
  \/ generateOffer(FALSE)

SpecMedia == InitMedia /\ [][NextMedia]_vars

Enabling ==
  \/ \E type \in {"audio", "video"}, value \in BOOLEAN : setOneEnabled(type, value)
  \/ \E value \in BOOLEAN : setEnabled(value)

\* the enabled flags of the tracks sent, on Peers that send audio, audio and video,
\* or nothing, while offers are generated and processed
InitEnabled ==
  \/ Constructed("sendonly", DefaultConstraints, FALSE, "webcam", NoStream, AppAudioStream)
  \/ Constructed("sendrecv", DefaultConstraints, FALSE, "webcam", AppVideoStream, AppAudioStream)
  \/ Constructed("recvonly", DefaultConstraints, FALSE, "webcam", NoStream, NoStream)

NextEnabled ==
  \/ Start
  \/ dispose(FALSE)
  \/ Enabling
  \/ Negotiation

SpecEnabled == InitEnabled /\ [][NextEnabled]_vars

\* the frames of the remote video of a receive-only Peer, while descriptions are
\* processed and the connection is closed and recreated
InitFrame == Constructed("recvonly", DefaultConstraints, FALSE, "webcam", NoStream, NoStream)

NextFrame ==
  \/ Start
  \/ \E i \in 1..MaxConns : onConnectionClosed(i)
  \/ PcClose
  \/ onFrame
  \/ Negotiation

SpecFrame == InitFrame /\ [][NextFrame]_vars

Channel ==
  \/ \E state \in {"open", "closing", "closed"} : ChannelState(state)
  \/ \E data \in Data : send(data)

\* the data channel of a receive-only Peer, asked for or not, while the
\* connection is closed and recreated
InitChannel ==
  \E channels \in BOOLEAN :
    ConstructedWith("recvonly", DefaultConstraints, FALSE, "webcam", NoStream, NoStream,
                    channels, "stun")

NextChannel ==
  \/ Start
  \/ \E i \in 1..MaxConns : onConnectionClosed(i)
  \/ dispose(FALSE)
  \/ Channel

SpecChannel == InitChannel /\ [][NextChannel]_vars

ReplacingTrack ==
  \/ \E argument \in TrackArguments : replaceTrack(argument)
  \/ \E r \in 1..MaxTrackCalls, ok \in BOOLEAN : replaceTrackMediaDone(r, ok)
  \/ \E r \in 1..MaxTrackCalls, ok \in BOOLEAN : settleSenderReplaceTrack(r, ok)

\* the replacement of the video track: a Peer that acquires from the camera, a
\* Peer given its streams, a receive-only Peer, while offers are generated and the
\* Peer is disposed
InitTrack ==
  \/ Constructed("sendrecv", DefaultConstraints, FALSE, "webcam", NoStream, NoStream)
  \/ Constructed("sendrecv", DefaultConstraints, FALSE, "webcam", AppVideoStream, AppAudioStream)
  \/ Constructed("recvonly", DefaultConstraints, FALSE, "webcam", NoStream, NoStream)

NextTrack ==
  \/ Start
  \/ \E i \in 1..MaxConns, ok \in BOOLEAN : GetMediaDone(i, ok)
  \/ dispose(FALSE)
  \/ ReplacingTrack
  \/ generateOffer(FALSE)

SpecTrack == InitTrack /\ [][NextTrack]_vars

\* the senders a track is replaced on: a Peer given a video stream only, or both
\* streams, whose connection gets the transceivers of a remote offer
InitSenders ==
  \E as \in {NoStream, AppAudioStream} :
    Constructed("sendrecv", DefaultConstraints, FALSE, "webcam", AppVideoStream, as)

NextSenders ==
  \/ Start
  \/ processOffer(Lines(<<"mA", "mV">>), FALSE)
  \/ \E k \in 1..MaxCalls, ok \in BOOLEAN : settle(k, ok, FALSE)
  \/ ReplacingTrack

SpecSenders == InitSenders /\ [][NextSenders]_vars

\* offers generated again and again by a receive-only Peer, under every media
\* constraint
MaxOffers == 2

InitRepeat ==
  \E mc \in [audio : Constraints, video : Constraints] :
    Constructed("recvonly", mc, FALSE, "webcam", NoStream, NoStream)

NextRepeat ==
  \/ Start
  \/ generateOfferWithin(MaxOffers, FALSE)
  \/ \E k \in 1..MaxOffers, ok \in BOOLEAN : settle(k, ok, FALSE)

SpecRepeat == InitRepeat /\ [][NextRepeat]_vars

\* candidates and listeners on a Peer whose connection is closed by the application
\* and recreated
InitRecreate == Constructed("recvonly", DefaultConstraints, FALSE, "webcam", NoStream, NoStream)

NextRecreate ==
  \/ Start
  \/ Candidates
  \/ PcClose
  \/ \E i \in 1..MaxConns : onConnectionClosed(i)

SpecRecreate == InitRecreate /\ [][NextRecreate]_vars

\* the buffer of remote candidates on a connection that negotiates, rolls back
\* and is closed
InitBuffer == Constructed("recvonly", DefaultConstraints, FALSE, "webcam", NoStream, NoStream)

NextBuffer ==
  \/ bufferedAddIceCandidate
  \/ \E op \in SignalingOps : signalingstatechange(op)
  \/ closeBufferPc

SpecBuffer == InitBuffer /\ [][NextBuffer]_vars

\* the acquisition of media at construction and at the recreation of a closed
\* connection: every mode and source, under constraints with and without audio,
\* with and without streams given
InitAcquire ==
  \E m \in Modes, source \in Sources, vs \in {NoStream, AppVideoStream},
     as \in {NoStream, AppAudioStream},
     mc \in {DefaultConstraints, [audio |-> "false", video |-> "true"]} :
    Constructed(m, mc, FALSE, source, vs, as)

NextAcquire ==
  \/ Start
  \/ \E i \in 1..MaxConns, ok \in BOOLEAN : GetMediaDone(i, ok)
  \/ \E i \in 1..MaxConns : onConnectionClosed(i)
  \/ PcClose
  \/ dispose(FALSE)

SpecAcquire == InitAcquire /\ [][NextAcquire]_vars

\* candidates produced while a receive-only Peer negotiates
InitGathering ==
  Constructed("recvonly", DefaultConstraints, FALSE, "webcam", NoStream, NoStream)

NextGathering ==
  \/ Start
  \/ processOffer(Lines(<<"mA">>), FALSE)
  \/ generateOffer(FALSE)
  \/ \E k \in 1..MaxCalls, ok \in BOOLEAN : settle(k, ok, FALSE)
  \/ /\ Len(produced) < MaxEvents
     /\ onIcecandidate(Len(RealCandidates(produced)) + 1)
  \/ /\ Len(produced) < MaxEvents
     /\ onIcecandidate(NullCandidate)
  \/ \E l \in 1..MaxListeners, e \in IceEvents : on(e, l)

SpecGathering == InitGathering /\ [][NextGathering]_vars

\* streams the application gives that do not hold what their option is named for: a
\* video stream with the audio track only, an audio stream with the video track
SoundStream == [id |-> 3, tracks |-> <<2>>]
PictureStream == [id |-> 4, tracks |-> <<1>>]

\* the local descriptions of sending Peers with and without simulcast, on runtimes
\* with and without Plan B, given streams with and without video tracks
InitSimulcast ==
  \E sim \in BOOLEAN, planB \in BOOLEAN,
     given \in { <<AppVideoStream, AppAudioStream>>, <<AppVideoStream, NoStream>>,
                 <<SoundStream, PictureStream>>, <<NoStream, AppAudioStream>> } :
    ConstructedAs("sendrecv", DefaultConstraints, sim, planB, "webcam", given[1], given[2],
                  FALSE, "stun")

NextSimulcast ==
  \/ Start
  \/ generateOffer(FALSE)
  \/ \E sdp \in SdpSet : processOffer(sdp, FALSE)
  \/ \E k \in 1..MaxCalls, ok \in BOOLEAN, fid \in BOOLEAN : settle(k, ok, fid)

SpecSimulcast == InitSimulcast /\ [][NextSimulcast]_vars

\* the whole Peer: every mode, with and without streams given at construction
Init ==
  \E m \in Modes, vs \in {NoStream, AppVideoStream}, as \in {NoStream, AppAudioStream} :
    Constructed(m, DefaultConstraints, FALSE, "webcam", vs, as)

Next ==
  \/ Start
  \/ \E i \in 1..MaxConns, ok \in BOOLEAN : GetMediaDone(i, ok)
  \/ \E s \in {"connected", "disconnected", "failed"} : onConnectionStateChange(s)
  \/ \E i \in 1..MaxConns : onConnectionClosed(i)
  \/ PcClose
  \/ \E closeThrows \in BOOLEAN : dispose(closeThrows)
  \/ Negotiation
  \/ Candidates
  \/ Replacing
  \/ Enabling
  \/ onFrame
  \/ Channel
  \/ ReplacingTrack

Spec == Init /\ [][Next]_vars

(* ------------------------------- claims ------------------------------- *)

\* the call a step adds to calls, when the step is a call of a negotiation method
Called(op) == Len(calls') = Len(calls) + 1 /\ calls'[Len(calls')].op = op
TheCall == calls'[Len(calls')]

PeerUnchanged == UNCHANGED <<config, media, conns, ready, listeners, newListenerHook, ice, disposed, replaces, remote, acquisition, buffer>>

\* C1: processAnswer and processOffer called while the connection the Peer holds is
\* closed reject with 'PeerConnection is closed', invoke no operation of the
\* connection (the log of the call stays empty) and change no state of the Peer.
C1_ClosedRejects ==
  [][ ((Called("processAnswer") \/ Called("processOffer")) /\ IsClosed(conns[pc]))
        => /\ TheCall.step = "rejected"
           /\ TheCall.err = "PeerConnection is closed"
           /\ TheCall.log = <<>>
           /\ PeerUnchanged ]_vars

C1_Witness ==
  \E k \in 1..Len(calls) :
    /\ calls[k].op \in {"processAnswer", "processOffer"}
    /\ calls[k].step = "rejected" /\ calls[k].err = "PeerConnection is closed"
    /\ IsClosed(conns[calls[k].conn])

\* C2: after dispose() on a ready Peer whose connection was not closed, no later
\* call of processAnswer, processOffer or generateOffer succeeds, whatever
\* connection events follow the disposal.
C2_NoNegotiationAfterDispose ==
  \A k \in 1..Len(calls) : calls[k].late = "ready" => calls[k].step # "resolved"

\* C3: generateOffer called while the connection the Peer holds is closed fails with
\* an error (thrown or as a rejection) and changes nothing: no transceiver is added,
\* no direction is changed, no description is set.
C3_ClosedOfferFails ==
  [][ (Called("generateOffer") /\ IsClosed(conns[pc]))
        => /\ TheCall.step \in {"thrown", "rejected"}
           /\ TheCall.err = "InvalidStateError"
           /\ PeerUnchanged ]_vars

C3_Witness ==
  \E k \in 1..Len(calls) :
    /\ calls[k].op = "generateOffer" /\ calls[k].step = "thrown"
    /\ mode = "sendonly" /\ IsClosed(conns[calls[k].conn])
    /\ Len(conns[calls[k].conn].transceivers) > 0

\* a step that registers listener l for event e
Attached(l, e) == listeners[l] = "none" /\ listeners'[l] = e

\* a step that handles an icecandidate event
Produced == Len(produced') = Len(produced) + 1
TheCandidate == produced'[Len(produced')]

InQueue(c) == \E i \in 1..Len(candidatesQueueOut) : candidatesQueueOut[i] = c

\* the state is the one of a Peer no listener was attached to and whose
\* connection produced candidates only
NeverListened ==
  /\ \A l \in 1..MaxListeners : listeners[l] = "none"
  /\ emitted = <<>> /\ delivered = <<>>
  /\ Nulls(produced) = <<>>
  /\ disposed = "no"

\* C4: when N candidates were produced before any listener was attached, attaching
\* an 'icecandidate' listener hands it exactly these N candidates in production
\* order and empties the queue; a candidate produced while an 'icecandidate'
\* listener is registered goes to the listeners and not to the queue.
C4_ReplayThenDirect ==
  [][ /\ \A l \in 1..MaxListeners :
           (NeverListened /\ Attached(l, "icecandidate"))
             => /\ delivered' = [i \in 1..Len(produced) |->
                                   [listener |-> l, event |-> "icecandidate",
                                    candidate |-> produced[i]]]
                /\ candidatesQueueOut' = <<>>
      /\ (Produced /\ listenerCount("icecandidate") > 0 /\ TheCandidate # NullCandidate)
           => /\ delivered' = delivered \o Emit("icecandidate", TheCandidate)
              /\ candidatesQueueOut' = candidatesQueueOut ]_vars

C4_Witness ==
  /\ produced = <<1, 2, 3>>
  /\ delivered = [i \in 1..3 |-> [listener |-> 1, event |-> "icecandidate", candidate |-> i]]
  /\ emitted = <<[event |-> "icecandidate", candidate |-> 3]>>
  /\ candidatesQueueOut = <<>>

DeliveriesOf(c) ==
  {i \in 1..Len(delivered) : delivered[i].candidate = c /\ delivered[i].event = "icecandidate"}

\* C5: every candidate produced is either still queued or was delivered to the
\* 'icecandidate' listeners, once to a listener, and the deliveries follow the
\* production order.
C5_ExactlyOnceInOrder ==
  disposed = "no" =>
    /\ \A c \in 1..Len(RealCandidates(produced)) :
         \/ InQueue(c) /\ DeliveriesOf(c) = {}
         \/ /\ ~InQueue(c) /\ DeliveriesOf(c) # {}
            /\ \A i, j \in DeliveriesOf(c) : delivered[i].listener = delivered[j].listener => i = j
    /\ \A i, j \in 1..Len(delivered) :
         (i < j /\ delivered[i].event = "icecandidate" /\ delivered[j].event = "icecandidate")
           => delivered[i].candidate <= delivered[j].candidate

DoneEvent == [event |-> "candidategatheringdone", candidate |-> NullCandidate]

\* C6: 'candidategatheringdone' is never emitted twice without a candidate emitted in
\* between; while a listener is registered a null candidate emits it exactly when
\* gatheringDone is not set and sets gatheringDone, and a candidate resets it.
C6_DoneOncePerCycle ==
  /\ [](\A i \in 1..(Len(emitted) - 1) : ~(emitted[i] = DoneEvent /\ emitted[i + 1] = DoneEvent))
  /\ [][ (Produced /\ Listening)
           => IF TheCandidate = NullCandidate
                THEN /\ candidategatheringdone'
                     /\ emitted' = IF candidategatheringdone THEN emitted
                                                            ELSE Append(emitted, DoneEvent)
                ELSE /\ ~candidategatheringdone'
                     /\ emitted' = Append(emitted, [event |-> "icecandidate",
                                                    candidate |-> TheCandidate]) ]_vars

C6_Witness ==
  /\ produced = <<NullCandidate, NullCandidate>>
  /\ emitted = <<DoneEvent>>
  /\ Listening /\ candidategatheringdone

\* C7: attaching a 'candidategatheringdone' listener while the terminal marker is
\* queued delivers the marker to it, and attaching an 'icecandidate' listener
\* delivers the queued candidates, and only them, to it.
C7_MarkerReplayed ==
  [][ \A l \in 1..MaxListeners :
        /\ (disposed = "no" /\ Attached(l, "candidategatheringdone") /\ InQueue(NullCandidate))
             => delivered' = Append(delivered, [listener |-> l, event |-> "candidategatheringdone",
                                                candidate |-> NullCandidate])
        /\ (disposed = "no" /\ Attached(l, "icecandidate"))
             => delivered' = delivered \o
                  [i \in 1..Len(RealCandidates(candidatesQueueOut)) |->
                     [listener |-> l, event |-> "icecandidate",
                      candidate |-> RealCandidates(candidatesQueueOut)[i]]] ]_vars

\* the transceivers a generateOffer call is to add
ExpectedTransceivers(m, mc) ==
  IF m # "recvonly" THEN <<>>
  ELSE (IF mc.audio # "false"
          THEN <<[kind |-> "audio", direction |-> "recvonly", track |-> 0]>> ELSE <<>>)
       \o (IF mc.video # "false"
             THEN <<[kind |-> "video", direction |-> "recvonly", track |-> 0]>> ELSE <<>>)

\* C8: a generateOffer call on a connection that is not closed appends, before
\* createOffer is invoked, one 'recvonly' transceiver for each of audio and video
\* that the media constraints do not set to false when the mode is 'recvonly', and
\* no transceiver in the other modes.
C8_RecvonlyTransceivers ==
  [][ (Called("generateOffer") /\ ~IsClosed(conns[pc]))
        => /\ Len(conns') = Len(conns)
           /\ LET before == conns[pc].transceivers
                  after == conns'[pc].transceivers
              IN /\ Len(after) = Len(before) + Len(ExpectedTransceivers(mode, mediaConstraints))
                 /\ SubSeq(after, Len(before) + 1, Len(after))
                      = ExpectedTransceivers(mode, mediaConstraints)
                 /\ mode = "recvonly" => SubSeq(after, 1, Len(before)) = before
           /\ TheCall.log = <<Entry("createOffer", pc)>> ]_vars

C8_Witness ==
  /\ mode = "recvonly" /\ mediaConstraints = [audio |-> "false", video |-> "object"]
  /\ \E k \in 1..Len(calls) : calls[k].op = "generateOffer" /\ calls[k].step = "createOffer"
  /\ conns[pc].transceivers = <<[kind |-> "video", direction |-> "recvonly", track |-> 0]>>

\* C9: in 'sendonly' mode, when generateOffer invokes createOffer every transceiver
\* of the connection has the direction 'sendonly'.
C9_SendonlyDirections ==
  [][ (Called("generateOffer") /\ mode = "sendonly"
       /\ \E i \in 1..Len(TheCall.log) : TheCall.log[i].op = "createOffer")
        => \A i \in 1..Len(conns'[pc].transceivers) :
             conns'[pc].transceivers[i].direction = "sendonly" ]_vars

C9_Witness ==
  /\ mode = "sendonly"
  /\ \E k \in 1..Len(calls) : calls[k].op = "generateOffer" /\ calls[k].step = "createOffer"
  /\ conns[pc].transceivers = <<[kind |-> "audio", direction |-> "sendonly", track |-> 2]>>

Ops(call) == [i \in 1..Len(call.log) |-> call.log[i].op]
IsPrefix(a, b) == Len(a) <= Len(b) /\ SubSeq(b, 1, Len(a)) = a

OfferChain == <<"createOffer", "ok", "mangle", "setLocalDescription", "ok", "resolve">>
ProcessOfferChain ==
  <<"setRemoteDescription", "ok", "setRemoteVideo", "createAnswer", "ok",
    "mangle", "setLocalDescription", "ok", "resolve">>
ChainOf(call) == IF call.op = "generateOffer" THEN OfferChain ELSE ProcessOfferChain

\* C10: the steps of a processOffer or generateOffer call run in the order of the
\* chain, each invoked after the one before completed; the operation in flight is
\* the last one invoked; the call resolves after the last step, with the SDP of the
\* local description of the connection.
C10_StrictSequence ==
  /\ [](\A k \in 1..Len(calls) :
          calls[k].op \in {"processOffer", "generateOffer"}
            => /\ IsPrefix(Ops(calls[k]), ChainOf(calls[k]))
               /\ calls[k].step \in InFlight
                    => Ops(calls[k])[Len(calls[k].log)] = calls[k].step
               /\ calls[k].step = "resolved" => Ops(calls[k]) = ChainOf(calls[k]))
  /\ [][ \A k \in 1..Len(calls) :
           (calls[k].op \in {"processOffer", "generateOffer"}
            /\ calls[k].step # "resolved" /\ calls'[k].step = "resolved")
             => /\ calls[k].step = "setLocalDescription"
                /\ conns'[Len(conns')].localDescription # NoDesc
                /\ calls'[k].result = conns'[Len(conns')].localDescription.sdp ]_vars

C10_Witness ==
  \E k \in 1..Len(calls) :
    /\ calls[k].op = "processOffer" /\ calls[k].step = "resolved"
    /\ simulcast /\ Len(calls[k].result) > 4
    /\ calls[k].result = conns[pc].localDescription.sdp

\* an operation of the chain of the call failed (the guard's rejection comes before
\* any operation and leaves the log empty)
ChainFailed(call) == call.step = "rejected" /\ call.log # <<>>
LastOp(call) == call.log[Len(call.log)].op

\* C11 as stated: when an operation of the chain of generateOffer, processOffer or
\* processAnswer fails, the promise returned to the caller rejects with that
\* failure and no later step of the chain is executed.
C11_FailureRejects ==
  \A k \in 1..Len(calls) :
    ChainFailed(calls[k])
      => /\ asCallback(calls[k]).state = "rejected"
         /\ asCallback(calls[k]).err = calls[k].err
         /\ LastOp(calls[k]) \in InFlight \cup {"mangle"}

\* C11, amended: when an operation of the chain fails no later step of the chain
\* is executed (the failed step is the last one logged, the call never changes
\* again, the connections are untouched), a call succeeds only after its last step,
\* and the failure reaches the caller unchanged: as the rejection of the promise
\* returned when no callback was passed, as the only argument of the callback when
\* one was passed, the promise returned then settling with the callback's outcome.
C11_FailureDelivered ==
  /\ [](\A k \in 1..Len(calls) :
          /\ ChainFailed(calls[k])
               => /\ LastOp(calls[k]) \in InFlight \cup {"mangle"}
                  /\ calls[k].err # "none"
                  /\ IF calls[k].callback
                       THEN /\ asCallback(calls[k]).args = <<calls[k].err>>
                            /\ asCallback(calls[k]).state = "resolved"
                       ELSE /\ asCallback(calls[k]).state = "rejected"
                            /\ asCallback(calls[k]).err = calls[k].err
          /\ calls[k].step = "resolved" => LastOp(calls[k]) = "resolve")
  /\ [][ \A k \in 1..Len(calls) :
           /\ calls[k].step = "rejected" => calls'[k] = calls[k]
           /\ (calls[k].step \in InFlight /\ calls'[k].step = "rejected"
               /\ calls'[k].log = calls[k].log)
                => calls'[k].err = "OperationError" /\ conns' = conns ]_vars

C11_Witness ==
  \E k \in 1..Len(calls) :
    /\ calls[k].op = "processOffer" /\ calls[k].callback
    /\ calls[k].step = "rejected" /\ calls[k].err = "OperationError"
    /\ LastOp(calls[k]) = "createAnswer"
    /\ asCallback(calls[k]).state = "resolved"

\* the tracks the senders of a connection send, in the order of the senders
SenderTracks(c) ==
  LET sending == SelectSeq(c.transceivers, LAMBDA tr : tr.track # 0)
  IN [i \in 1..Len(sending) |-> sending[i].track]

\* C12: a connectionstatechange event replaces the connection the Peer holds exactly
\* when that connection is 'closed': the new connection is made from the stored
\* configuration, has the handlers (and a data channel exactly when data channels
\* were asked for), comes with a new readiness promise that re-attaches the tracks
\* of the held streams (or acquires media when the Peer holds none), and is the one
\* the Peer holds afterwards, not closed; the earlier connections and the rest of
\* the Peer are unchanged. An event of 'connected', 'disconnected' or 'failed'
\* changes nothing else.
C12_RecreatedOnClosed ==
  [][ /\ \A i \in 1..Len(conns) :
           (conns[i].closeEvent /\ ~conns'[i].closeEvent)
             => /\ UNCHANGED <<config, media, calls, listeners, newListenerHook, ice, disposed,
                               replaces, remote, trackCalls, buffer>>
                /\ \A j \in 1..Len(conns) :
                     conns'[j] = [conns[j] EXCEPT !.closeEvent = @ /\ j # i]
                /\ IF IsClosed(conns[pc])
                     THEN /\ Len(conns') = Len(conns) + 1 /\ Len(ready') = Len(ready) + 1
                          /\ LET n == conns'[Len(conns')]
                                 r == ready'[Len(ready')]
                             IN /\ n.connectionState = "new"
                                /\ n.configuration = peerconnectionConfiguration
                                /\ n.handlers
                                /\ n.channel.readyState
                                     = IF dataChannels THEN "connecting" ELSE "undefined"
                                /\ IF mode # "recvonly" /\ videoStream = NoStream
                                      /\ audioStream = NoStream
                                     THEN r.stage = "acquiring" /\ n.transceivers = <<>>
                                     ELSE /\ r.stage = "resolved"
                                          /\ SenderTracks(n)
                                               = videoStream.tracks \o audioStream.tracks
                     ELSE Len(conns') = Len(conns) /\ ready' = ready
      /\ (Len(conns') = Len(conns)
          /\ conns'[pc].connectionState # conns[pc].connectionState
          /\ conns'[pc].connectionState \in {"connected", "disconnected", "failed"})
           => /\ conns' = [conns EXCEPT ![pc].connectionState = conns'[pc].connectionState]
              /\ UNCHANGED <<config, media, ready, calls, listeners, newListenerHook, ice,
                             disposed, replaces, remote, acquisition, buffer>> ]_vars

C12_Witness ==
  /\ Len(conns) = 2 /\ IsClosed(conns[1]) /\ ~conns[1].closeEvent
  /\ conns[2].connectionState = "connected"
  /\ conns[2].channel.readyState = "connecting"
  /\ SenderTracks(conns[2]) = <<1, 2>>
  /\ Len(ready) = 2 /\ ready[2].stage = "resolved"

\* readiness promise i settles in the step
Settles(i) ==
  /\ i \in 1..Len(ready')
  /\ ready'[i].stage \in {"resolved", "rejected"}
  /\ i \in 1..Len(ready) => ready[i].stage \in {"start", "acquiring"}

Includes(ts, sub) == \A i \in 1..Len(sub) : \E j \in 1..Len(ts) : ts[j] = sub[i]

\* C13: when a readiness promise resolves, every track of the video and audio
\* streams the Peer holds has a sender on the connection the Peer holds; it never
\* resolves when the connection is closed at the time the tracks are to be attached
\* (it rejects, and nothing is attached); when the acquisition of media fails it
\* rejects with that failure, no track attached and no stream adopted.
C13_ReadyAfterTracks ==
  [][ \A i \in 1..MaxConns :
        Settles(i)
          => /\ ready'[i].stage = "resolved"
                  => /\ Includes(SenderTracks(conns'[Len(conns')]),
                                 videoStream'.tracks \o audioStream'.tracks)
                     /\ ~IsClosed(conns'[Len(conns')])
                     /\ ready'[i].err = "none"
             /\ (Len(ready') = Len(ready) /\ IsClosed(conns[pc]))
                  => /\ ready'[i].stage = "rejected"
                     /\ ready'[i].err \in {"closed", "getMedia"}
                     /\ conns' = conns
             /\ (ready'[i].stage = "rejected" /\ ready'[i].err = "getMedia")
                  => /\ ready[i].stage = "acquiring"
                     /\ UNCHANGED <<conns, media>> ]_vars

C13_Witness ==
  /\ mode = "sendrecv" /\ Len(tracks) = 4
  /\ ready = <<[stage |-> "resolved", err |-> "none"]>>
  /\ videoStream.tracks = <<3, 4>> /\ SenderTracks(conns[pc]) = <<3, 4>>

\* the promise of replaceStream call r resolves in the step
ReplaceResolves(r) ==
  /\ r \in 1..Len(replaces') /\ replaces'[r].state = "resolved"
  /\ r \in 1..Len(replaces) => replaces[r].state # "resolved"

\* C14: when the promise of replaceStream(newStream) resolves, every track of the
\* video stream the Peer held before the call is stopped, the Peer holds newStream
\* (unless replaceStream was called again meanwhile), and every sender of the
\* connection whose track has the kind of a track of newStream sends that track.
C14_StreamReplaced ==
  [][ \A r \in 1..MaxReplaces :
        ReplaceResolves(r)
          => LET rec == replaces'[r]
                 c == conns'[Len(conns')]
             IN /\ \A i \in 1..Len(rec.previous.tracks) : tracks'[rec.previous.tracks[i]].stopped
                /\ r = Len(replaces') => videoStream' = rec.stream
                /\ \A i \in 1..Len(getSenders(c)), j \in 1..Len(rec.stream.tracks) :
                     LET sent == c.transceivers[getSenders(c)[i]].track
                     IN (sent # 0 /\ tracks'[sent].kind = tracks'[rec.stream.tracks[j]].kind)
                          => sent = rec.stream.tracks[j] ]_vars

C14_Witness ==
  /\ Len(replaces) = 1 /\ replaces[1].state = "resolved"
  /\ Len(replaces[1].ops) = 2 /\ replaces[1].previous = AppVideoStream
  /\ tracks[1].stopped /\ tracks[2].stopped
  /\ videoStream.tracks = <<3, 4>>
  /\ ~IsClosed(conns[pc]) /\ SenderTracks(conns[pc]) = <<3, 4>>

\* C15: a dispose() call on a Peer that was disposed before changes nothing: no
\* connection is closed, no track stopped, no listener removed, whatever events of
\* the connection came in between.
C15_DisposeIdempotent ==
  [][ (disposed # "no" /\ \E closeThrows \in BOOLEAN : dispose(closeThrows))
        => UNCHANGED vars ]_vars

\* C16: dispose() on a Peer whose connection is not closed leaves the connection
\* closed unless close() threw, and, thrown or not, every track of the held audio
\* and video streams stopped and no listener registered, the Peer's own
\* 'newListener' one included.
C16_DisposeReleases ==
  [][ \A closeThrows \in BOOLEAN :
        (dispose(closeThrows) /\ ~IsClosed(conns[pc]))
          => /\ ~closeThrows => (Len(conns') = Len(conns) /\ IsClosed(conns'[pc]))
             /\ \A i \in 1..Len(videoStream.tracks) : tracks'[videoStream.tracks[i]].stopped
             /\ \A i \in 1..Len(audioStream.tracks) : tracks'[audioStream.tracks[i]].stopped
             /\ \A l \in 1..MaxListeners : listeners'[l] = "none"
             /\ ~newListenerHook' ]_vars

C16_Witness ==
  /\ disposed = "ready" /\ Len(conns) = 1 /\ ~IsClosed(conns[1])
  /\ videoStream = AppVideoStream /\ audioStream = AppAudioStream
  /\ tracks[1].stopped /\ tracks[2].stopped
  /\ \A l \in 1..MaxListeners : listeners[l] = "none"
  /\ ~newListenerHook

\* the senders of a connection that send a track of a kind
SendersOf(c, trk, type) ==
  {i \in 1..Len(getSenders(c)) :
     LET sent == c.transceivers[getSenders(c)[i]].track
     IN sent # 0 /\ trk[sent].kind = type}

AsRead(value) == IF value THEN "true" ELSE "false"

\* C17: on a Peer with one audio sender, an assignment of a value to audioEnabled
\* leaves the enabled flag of the track of the sender at that value, and
\* audioEnabled then reads as that value.
C17_LastAssignedWins ==
  [][ \A value \in BOOLEAN :
        (setOneEnabled("audio", value)
         /\ Cardinality(SendersOf(conns[pc], tracks, "audio")) = 1)
          => /\ \A i \in SendersOf(conns[pc], tracks, "audio") :
                  tracks'[conns[pc].transceivers[i].track].enabled = value
             /\ getMediaEnabled(conns'[Len(conns')], tracks', "audio") = AsRead(value) ]_vars

\* what the claim has audioEnabled and videoEnabled read as
ReadsAs(c, trk, type) ==
  IF getSenders(c) = <<>> THEN "undefined"
  ELSE IF \E i \in SendersOf(c, trk, type) : ~trk[c.transceivers[i].track].enabled
    THEN "false"
  ELSE "true"

\* C18: audioEnabled and videoEnabled read as undefined when the connection has no
\* senders, as false when a sender sends a disabled track of the kind and as true
\* otherwise; enabled is true exactly when both are; with an audio sender, enabled
\* is not true after audioEnabled = false, and audioEnabled reads as the value
\* last assigned to enabled.
C18_GetterValues ==
  /\ [](/\ \A type \in {"audio", "video"} :
            getMediaEnabled(conns[pc], tracks, type) = ReadsAs(conns[pc], tracks, type)
        /\ (getEnabled(conns[pc], tracks) = "true")
             = (ReadsAs(conns[pc], tracks, "audio") = "true"
                /\ ReadsAs(conns[pc], tracks, "video") = "true"))
  /\ [][ \A value \in BOOLEAN :
           /\ (setOneEnabled("audio", FALSE) /\ SendersOf(conns[pc], tracks, "audio") # {})
                => getEnabled(conns'[Len(conns')], tracks') \in {"false", "undefined"}
           /\ (setEnabled(value) /\ SendersOf(conns[pc], tracks, "audio") # {})
                => getMediaEnabled(conns'[Len(conns')], tracks', "audio") = AsRead(value) ]_vars

\* C19: currentFrame fails with 'No remote video stream available' whenever the Peer
\* has no sink on a video receiver of the connection it holds (no remote
\* description processed yet, no video receiver found, connection replaced), and a
\* frame it returns was received on the connection the Peer holds.
C19_NoStaleFrame ==
  /\ (videoSink = NoSink \/ videoSink.conn # pc)
       => currentFrame(lastFrame) = "No remote video stream available"
  /\ currentFrame(lastFrame) = "canvas" => lastFrame.conn = pc

\* C20: send(data) appends data to what was sent on the data channel exactly when
\* the Peer has a data channel whose readyState is 'open'; in every other case
\* nothing is sent, the call ends in the warning, and the Peer is unchanged;
\* nothing but send changes what was sent.
C20_SendWhenOpen ==
  [][ /\ \A data \in Data :
           send(data)
             => /\ Len(conns') = Len(conns)
                /\ IF conns[pc].channel.readyState = "open"
                     THEN conns' = [conns EXCEPT ![pc].channel.sent = Append(@, data)]
                     ELSE /\ conns'[pc].channel.sent = conns[pc].channel.sent
                          /\ conns'[pc].channel.refused
                               = Append(conns[pc].channel.refused, data)
                /\ UNCHANGED <<config, media, ready, calls, listeners, newListenerHook,
                               ice, disposed, replaces, remote, acquisition, buffer>>
      /\ \A i \in 1..Len(conns) :
           conns'[i].channel.sent # conns[i].channel.sent
             => /\ i = pc /\ conns[i].channel.readyState = "open"
                /\ \E data \in Data : conns'[i].channel.sent = Append(conns[i].channel.sent, data)
                /\ conns'[i].channel.refused = conns[i].channel.refused ]_vars

C20_Witness ==
  /\ Len(conns) = 2
  /\ conns[1].channel.sent = <<"d1">> /\ conns[1].channel.refused = <<"d2">>
  /\ conns[1].channel.readyState = "closed"
  /\ conns[2].channel.readyState = "open"
  /\ conns[2].channel.sent = <<"d2">> /\ conns[2].channel.refused = <<"d1">>

\* C21: while no listener is registered for 'icecandidate' or
\* 'candidategatheringdone', a candidate event emits nothing and invokes no
\* listener, and its candidate is appended to the queue (a null candidate only while
\* gatheringDone is not set); the queue never holds more than one null marker.
C21_QueuedWhileUnlistened ==
  /\ [](Len(Nulls(candidatesQueueOut)) <= 1)
  /\ [][ (Produced /\ ~Listening)
           => /\ emitted' = emitted /\ delivered' = delivered
              /\ candidatesQueueOut' =
                   IF TheCandidate = NullCandidate /\ candidategatheringdone
                     THEN candidatesQueueOut
                     ELSE Append(candidatesQueueOut, TheCandidate) ]_vars

\* C22: right after a listener for 'icecandidate' or 'candidategatheringdone' is
\* attached to a Peer that was not disposed and had no listener for either event,
\* the candidate queue is empty, whatever it contained.
C22_QueueDrained ==
  [][ \A l \in 1..MaxListeners, e \in IceEvents :
        (disposed = "no" /\ ~Listening /\ Attached(l, e)) => candidatesQueueOut' = <<>> ]_vars

\* the step runs a continuation of work that was in flight when dispose() was
\* called: the initial acquisition of media, a negotiation call or a replaceTrack call
LateContinuation ==
  \/ ready[1].stage = "acquiring" /\ ready'[1].stage # "acquiring"
  \/ \E k \in 1..Len(calls) : calls[k].late = "no" /\ calls'[k] # calls[k]
  \/ \E r \in 1..Len(trackCalls) : trackCalls[r].late = "no" /\ trackCalls'[r] # trackCalls[r]

\* C23: after dispose() closed the connection, a continuation of work that was in
\* flight has no side effect: no description is set and no track is added or
\* replaced (the connections are as they were), no stream is adopted (adopting one
\* emits 'setLocalVideo'), no video sink is created, no ICE event is emitted.
C23_LateContinuationsInert ==
  [][ (disposed # "no" /\ LateContinuation)
        => /\ conns' = conns
           /\ videoStream' = videoStream /\ audioStream' = audioStream
           /\ remote' = remote
           /\ emitted' = emitted /\ delivered' = delivered ]_vars

\* the negotiation calls that have an operation of the connection in flight
Negotiating == {k \in 1..Len(calls) : calls[k].step \in InFlight}

\* a listener is registered for one of the two events
SomebodyListens == \E l \in 1..MaxListeners : listeners[l] \in IceEvents

\* C24: the connection can produce a candidate whatever operation a negotiation
\* call has in flight, and the handling of the event is decided by the listener
\* registrations, the candidate and gatheringDone alone: emitted (and gatheringDone
\* reset) or signalled as done while somebody listens, queued or dropped otherwise;
\* it changes no description, transceiver, call or readiness promise.
C24_CandidatesIndependent ==
  /\ [](\A candidate \in {NullCandidate, Len(RealCandidates(produced)) + 1} :
          (~MicrotaskPending /\ ~IsClosed(conns[pc]))
            => ENABLED onIcecandidate(candidate))
  /\ [][ Produced
           => /\ IF SomebodyListens /\ TheCandidate # NullCandidate
                   THEN /\ emitted' = Append(emitted, [event |-> "icecandidate",
                                                       candidate |-> TheCandidate])
                        /\ delivered' = delivered \o Emit("icecandidate", TheCandidate)
                        /\ ~candidategatheringdone'
                        /\ candidatesQueueOut' = candidatesQueueOut
                 ELSE IF SomebodyListens /\ ~candidategatheringdone
                   THEN /\ emitted' = Append(emitted, DoneEvent)
                        /\ delivered' = delivered \o Emit("candidategatheringdone", NullCandidate)
                        /\ candidategatheringdone'
                        /\ candidatesQueueOut' = candidatesQueueOut
                 ELSE IF ~SomebodyListens /\ ~candidategatheringdone
                   THEN /\ candidatesQueueOut' = Append(candidatesQueueOut, TheCandidate)
                        /\ candidategatheringdone' = (TheCandidate = NullCandidate)
                        /\ emitted' = emitted /\ delivered' = delivered
                 ELSE UNCHANGED <<candidatesQueueOut, candidategatheringdone, emitted, delivered>>
              /\ UNCHANGED <<config, media, conns, ready, calls, listeners, newListenerHook,
                             disposed, replaces, remote, acquisition, buffer>> ]_vars

C24_Witness ==
  /\ \E k \in Negotiating : calls[k].op = "processOffer" /\ calls[k].step = "setLocalDescription"
  /\ produced = <<1, NullCandidate, 2>>
  /\ candidatesQueueOut = <<1, NullCandidate>>
  /\ emitted = <<[event |-> "icecandidate", candidate |-> 2]>>

AllStopped(ts) == \A i \in 1..Len(ts) : tracks[ts[i]].stopped
Bound(ops) == \E j \in 1..Len(ops) : ops[j].state = "done"

\* C25: once a sender was bound to a track of the stream a replaceStream call or a
\* replaceTrack call by source name made the Peer adopt, every track of the stream
\* the Peer held before is stopped.
C25_StoppedBeforeBound ==
  /\ \A r \in 1..Len(replaces) :
       Bound(replaces[r].ops) => AllStopped(replaces[r].previous.tracks)
  /\ \A r \in 1..Len(trackCalls) :
       (trackCalls[r].argument \in Sources /\ Bound(trackCalls[r].ops))
         => AllStopped(trackCalls[r].previous.tracks)

\* the capture call the claim expects of a Peer that holds no stream
ExpectedCapture ==
  IF sendSource = "screen"
    THEN [method |-> "getDisplayMedia", constraints |-> [audio |-> "false", video |-> "true"]]
    ELSE [method |-> "getUserMedia", constraints |-> mediaConstraints]

Acquires == mode # "recvonly" /\ videoStream = NoStream /\ audioStream = NoStream

\* C26: the constructor, and the initialisation of a recreated connection, make a
\* capture call exactly when the mode is not 'recvonly' and the Peer holds neither a
\* video nor an audio stream: getDisplayMedia for the source 'screen', getUserMedia
\* with the media constraints otherwise; readiness then waits for the call and
\* resolves only with the acquired stream held and its tracks on senders of the
\* connection; without acquisition no capture call is made and no stream changes.
C26_AcquiresWhenNeeded ==
  /\ []((Len(ready) = 1 /\ ready[1].stage \in {"start", "acquiring"})
          => /\ captures = IF Acquires THEN <<ExpectedCapture>> ELSE <<>>
             /\ (ready[1].stage = "acquiring") = Acquires)
  /\ [][ /\ Len(ready') = Len(ready) + 1
           => /\ captures' = IF Acquires THEN Append(captures, ExpectedCapture) ELSE captures
              /\ (ready'[Len(ready')].stage = "acquiring") = Acquires
              /\ UNCHANGED media
         /\ \A i \in 1..Len(ready) :
              (ready[i].stage = "acquiring" /\ ready'[i].stage = "resolved")
                => /\ videoStream' # videoStream
                   /\ videoStream'.tracks # <<>>
                   /\ Includes(SenderTracks(conns'[Len(conns')]), videoStream'.tracks)
                   /\ \A j \in 1..Len(videoStream'.tracks) :
                        videoStream'.tracks[j] > Len(tracks)
         /\ captures' # captures => Len(ready') = Len(ready) + 1 ]_vars

C26_Witness ==
  /\ sendSource = "screen" /\ mode = "sendonly" /\ Len(conns) = 2
  /\ captures = <<ExpectedCapture, ExpectedCapture>>
  /\ ready = <<[stage |-> "rejected", err |-> "getMedia"], [stage |-> "resolved", err |-> "none"]>>
  /\ videoStream.tracks = <<3>> /\ SenderTracks(conns[2]) = <<3>>

\* call k hands a description to #setLocalDescription in the step, which passes it
\* on to the connection
Describes(k) ==
  /\ k \in 1..Len(calls)
  /\ calls[k].step \in {"createOffer", "createAnswer"}
  /\ calls'[k].step = "setLocalDescription"

\* the descriptions createOffer or createAnswer can have produced for the call
CreatedFor(call) ==
  LET c == conns[call.target]
      kinds == IF call.step = "createOffer" THEN TransceiverKinds(c)
                                             ELSE SdpKinds(c.remoteDescription.sdp)
  IN { [type |-> IF call.step = "createOffer" THEN "offer" ELSE "answer",
        sdp |-> CreatedSdp(kinds, fid)] : fid \in {f \in BOOLEAN : f => SendsVideo(c, tracks)} }

\* the lines of an SDP before its first a=ssrc-group:FID line
CutAtFID(sdp) ==
  LET clean == {n \in 0..Len(sdp) : \A i \in 1..n : sdp[i].l # "FID"}
  IN SubSeq(sdp, 1, CHOOSE n \in clean : \A m \in clean : m <= n)

\* the fixed block: the conference flag, the SIM group and the four lines of each
\* of the SSRCs 1, 2 and 3
SimulcastBlock(sid, tid) ==
  << Line("conference"), Line("SIM") >>
  \o [i \in 1..12 |->
        LET kind == <<"cname", "msid", "mslabel", "label">>[((i - 1) % 4) + 1]
        IN [ l |-> kind, ssrc |-> ((i - 1) \div 4) + 1,
             stream |-> IF kind \in {"msid", "mslabel"} THEN sid ELSE 0,
             track |-> IF kind \in {"msid", "label"} THEN tid ELSE 0 ]]

VideoTracksHeld == OfKind(tracks, videoStream.tracks, "video")

\* the description a successful setLocalDescription of call k leaves on the connection
SetsLocal(k) ==
  /\ k \in 1..Len(calls) /\ calls[k].step = "setLocalDescription"
  /\ calls'[k].step \notin {"setLocalDescription", "rejected"}

\* C27: with simulcast on a Plan B runtime and a video track in the held video
\* stream, the description passed to setLocalDescription, and set by it, has the
\* type of the created one and its SDP cut at the first a=ssrc-group:FID line,
\* followed by the fixed block with the id of the held video stream and the id of
\* its first video track.
C27_SimulcastMangled ==
  [][ \A k \in 1..MaxCalls :
        /\ (Describes(k) /\ simulcast /\ usePlanB /\ VideoTracksHeld # <<>>)
             => /\ calls'[k].created \in CreatedFor(calls[k])
                /\ calls'[k].desc =
                     [ type |-> calls'[k].created.type,
                       sdp |-> CutAtFID(calls'[k].created.sdp)
                               \o SimulcastBlock(videoStream.id, VideoTracksHeld[1]) ]
        /\ SetsLocal(k) => conns'[calls[k].target].localDescription = calls[k].desc ]_vars

C27_Witness ==
  /\ simulcast /\ usePlanB /\ videoStream = AppVideoStream
  /\ \E k \in 1..Len(calls) :
       /\ calls[k].op = "processOffer" /\ calls[k].step = "resolved"
       /\ calls[k].created = [type |-> "answer", sdp |-> Lines(<<"mA", "mV", "FID", "ssrc">>)]
  /\ conns[pc].localDescription
       = [type |-> "answer", sdp |-> Lines(<<"mA", "mV">>) \o SimulcastBlock(1, 1)]

\* C28: without simulcast, or with simulcast on a runtime without Plan B, the
\* description passed to setLocalDescription, and set by it, is the one createOffer
\* or createAnswer produced.
C28_UnmangledWithoutPlanB ==
  [][ \A k \in 1..MaxCalls :
        /\ (Describes(k) /\ ~(simulcast /\ usePlanB))
             => /\ calls'[k].created \in CreatedFor(calls[k])
                /\ calls'[k].desc = calls'[k].created
        /\ (SetsLocal(k) /\ ~(simulcast /\ usePlanB))
             => /\ conns'[calls[k].target].localDescription = calls[k].desc
                /\ calls'[k].result = calls[k].desc.sdp ]_vars

C28_Witness ==
  /\ simulcast /\ ~usePlanB /\ videoStream = AppVideoStream
  /\ \E k \in 1..Len(calls) :
       /\ calls[k].op = "generateOffer" /\ calls[k].step = "resolved"
       /\ calls[k].created = conns[pc].localDescription
  /\ conns[pc].localDescription
       = [type |-> "offer", sdp |-> Lines(<<"mA", "mV", "FID", "ssrc">>)]

\* C29: with simulcast on a Plan B runtime and a held video stream without video
\* tracks, the description passed to setLocalDescription is the one createOffer or
\* createAnswer produced, and the call goes on with it.
C29_NoVideoTracksUnmangled ==
  [][ \A k \in 1..MaxCalls :
        (k \in 1..Len(calls)
         /\ calls[k].step \in {"createOffer", "createAnswer"} /\ calls'[k].step # calls[k].step
         /\ calls'[k].err # "OperationError" /\ ~IsClosed(conns[pc])
         /\ simulcast /\ usePlanB /\ videoStream # NoStream /\ VideoTracksHeld = <<>>)
          => /\ calls'[k].step = "setLocalDescription"
             /\ calls'[k].created \in CreatedFor(calls[k])
             /\ calls'[k].desc = calls'[k].created ]_vars

\* replaceTrack call r is made in the step with the name of a source
NamesSource(r) ==
  /\ Len(trackCalls) = r - 1 /\ Len(trackCalls') = r
  /\ trackCalls'[r].argument \in Sources

\* the capture call of replaceTrack call r settles in the step
CaptureSettles(r) ==
  /\ r \in 1..Len(trackCalls)
  /\ trackCalls[r].state = "acquiring" /\ trackCalls'[r].state # "acquiring"

\* the senders of a connection that send a video track
VideoSenders(c, trk) ==
  {i \in 1..Len(c.transceivers) :
     /\ ~IsClosed(c)
     /\ c.transceivers[i].track # 0 /\ trk[c.transceivers[i].track].kind = "video"}

\* C30: replaceTrack(sourceName) calls getDisplayMedia for 'screen' and getUserMedia
\* with the media constraints of the Peer otherwise; of the acquired tracks only the
\* first video track is kept, the others are stopped; when the call resolves every
\* video sender sends that track and the video tracks sent before are stopped; when
\* the capture fails the call rejects and no sender, stream or track changes.
C30_ReplaceTrackFromSource ==
  [][ \A r \in 1..MaxTrackCalls :
        /\ NamesSource(r) =>
             /\ captures' = Append(captures,
                  IF trackCalls'[r].argument = "screen"
                    THEN [method |-> "getDisplayMedia",
                          constraints |-> [audio |-> "false", video |-> "true"]]
                    ELSE [method |-> "getUserMedia", constraints |-> mediaConstraints])
             /\ UNCHANGED <<conns, videoStream, audioStream, tracks>>
        /\ (CaptureSettles(r) /\ trackCalls'[r].stream # NoStream) =>
             LET acquired == {t \in (Len(tracks) + 1)..Len(tracks') : tracks'[t].kind = "video"}
                 first == CHOOSE t \in acquired : \A u \in acquired : t <= u
             IN /\ acquired # {}
                /\ trackCalls'[r].track = first /\ ~tracks'[first].stopped
                /\ \A t \in (Len(tracks) + 1)..Len(tracks') : t # first => tracks'[t].stopped
                /\ videoStream' = trackCalls'[r].stream
        /\ (CaptureSettles(r) /\ trackCalls'[r].stream = NoStream) =>
             /\ trackCalls'[r].state = "rejected"
             /\ UNCHANGED <<conns, videoStream, audioStream, tracks>>
        /\ (r \in 1..Len(trackCalls) /\ trackCalls[r].argument \in Sources
            /\ trackCalls[r].state # "resolved" /\ trackCalls'[r].state = "resolved") =>
             /\ \A i \in VideoSenders(conns[pc], tracks) :
                  conns'[pc].transceivers[i].track = trackCalls'[r].track
             /\ \A j \in 1..Len(trackCalls'[r].sent) :
                  LET t == trackCalls'[r].sent[j]
                  IN (t # 0 /\ tracks[t].kind = "video") => tracks'[t].stopped ]_vars

C30_Witness ==
  \E r \in 1..Len(trackCalls) :
    /\ trackCalls[r].argument = "screen" /\ trackCalls[r].state = "resolved"
    /\ trackCalls[r].previous = AppVideoStream
    /\ trackCalls[r].track = 3 /\ ~tracks[3].stopped /\ tracks[1].stopped
    /\ VideoSenders(conns[pc], tracks) # {}
    /\ \A i \in VideoSenders(conns[pc], tracks) : conns[pc].transceivers[i].track = 3
    /\ captures = <<[method |-> "getDisplayMedia",
                     constraints |-> [audio |-> "false", video |-> "true"]]>>

\* replaceTrack call r is made in the step with a track or with nothing
GivesTrack(r) ==
  /\ Len(trackCalls) = r - 1 /\ Len(trackCalls') = r
  /\ trackCalls'[r].argument \notin Sources

\* the senders of the connection held whose track is of a kind
SendersOfKind(kind) ==
  {i \in 1..Len(conns[pc].transceivers) :
     /\ ~IsClosed(conns[pc])
     /\ conns[pc].transceivers[i].track # 0
     /\ tracks[conns[pc].transceivers[i].track].kind = kind}

AllSenders == IF IsClosed(conns[pc]) THEN {} ELSE 1..Len(conns[pc].transceivers)

\* the senders replaceTrack call r has asked to replace the track of
Asked(call) == {call.ops[j].sender : j \in 1..Len(call.ops)}

\* a sender.replaceTrack of call r settles in the step
SenderSettles(r, j) ==
  /\ r \in 1..Len(trackCalls) /\ j \in 1..Len(trackCalls[r].ops)
  /\ trackCalls[r].ops[j].state = "pending" /\ trackCalls'[r].ops[j].state # "pending"

\* C31: replaceTrack(track) asks exactly the senders whose track has the kind of the
\* track to replace it and replaceTrack() asks every sender (with null); no other
\* sender changes, and the track a sender had is stopped only once its replacement
\* is done.
C31_ReplacesMatchingSenders ==
  [][ \A r \in 1..MaxTrackCalls :
        /\ GivesTrack(r) =>
             /\ Asked(trackCalls'[r]) =
                  IF trackCalls'[r].argument = "track" THEN SendersOfKind("video")
                                                       ELSE AllSenders
             /\ \A j \in 1..Len(trackCalls'[r].ops) :
                  trackCalls'[r].ops[j].new =
                    IF trackCalls'[r].argument = "track" THEN Len(tracks') ELSE 0
             /\ UNCHANGED conns
             /\ \A t \in 1..Len(tracks) : tracks'[t] = tracks[t]
        /\ \A j \in 1..MaxConns * 2 :
             (SenderSettles(r, j) /\ trackCalls[r].argument \notin Sources) =>
               LET op == trackCalls[r].ops[j]
                   c == trackCalls[r].conn
               IN /\ \A i \in 1..Len(conns[c].transceivers) :
                       i # op.sender => conns'[c].transceivers[i] = conns[c].transceivers[i]
                  /\ IF trackCalls'[r].ops[j].state = "done"
                       THEN /\ conns'[c].transceivers[op.sender].track = op.new
                            /\ op.old # 0 => tracks'[op.old].stopped
                       ELSE UNCHANGED <<conns, tracks>> ]_vars

\* C32: the buffer passes no candidate to pc.addIceCandidate unless the signaling
\* state is 'stable' and the connection has a remote description; every candidate is
\* added at most once and in the order of submission, none stays queued in 'stable'
\* with a remote description; a candidate submitted in 'closed' is not queued and
\* its callback gets the error.
C32_BufferedUntilReady ==
  /\ [](\A i \in 1..Len(addCalls) :
          addCalls[i].signalingState = "stable" /\ addCalls[i].remoteDescription)
  /\ [](\A i \in 1..Len(addCalls), j \in 1..Len(addCalls) :
          i < j => addCalls[i].candidate < addCalls[j].candidate)
  /\ []((bufferPc.signalingState = "stable" /\ remoteDescription(bufferPc))
          => candidatesQueue = <<>>)
  /\ [][ (bufferPc.signalingState = "closed" /\ submitted' = submitted + 1)
           => /\ refusals' = Append(refusals, submitted')
              /\ UNCHANGED <<candidatesQueue, addCalls>> ]_vars

\* a listener is attached in the step for an event that is no ICE event
AttachesOther(l) ==
  /\ listeners[l] = "none"
  /\ listeners'[l] \notin IceEvents \cup {"none"}

\* C33: attaching a listener for an event other than 'icecandidate' and
\* 'candidategatheringdone' leaves the candidate queue unchanged and invokes no
\* listener.
C33_OtherListenersInert ==
  [][ \A l \in 1..MaxListeners :
        AttachesOther(l) => /\ candidatesQueueOut' = candidatesQueueOut
                            /\ delivered' = delivered ]_vars

\* C34: a candidate that is not null and is produced while no listener is
\* registered for 'icecandidate' or 'candidategatheringdone' is queued, whatever
\* gatheringDone is, and leaves the queue only when a listener for one of the two
\* events is attached.
C34_UnlistenedCandidateKept ==
  /\ [][ (Produced /\ TheCandidate # NullCandidate /\ ~SomebodyListens)
           => \E i \in 1..Len(candidatesQueueOut') : candidatesQueueOut'[i] = TheCandidate ]_vars
  /\ [][ \A c \in 1..MaxEvents :
           (InQueue(c) /\ \A i \in 1..Len(candidatesQueueOut') : candidatesQueueOut'[i] # c)
             => \E l \in 1..MaxListeners, e \in IceEvents : Attached(l, e) ]_vars

\* the connection the Peer holds is replaced in the step
Replaced == Len(conns') = Len(conns) + 1

\* C35: when the connection is replaced, the queue and gatheringDone start anew for
\* the new connection: the queue holds no candidate and no marker of the replaced
\* connection, which a listener attached afterwards would receive, and gatheringDone
\* is not set, so that the first null candidate of the new connection is signalled
\* or queued.
C35_GatheringRestartsOnReplace ==
  [][ Replaced => /\ candidatesQueueOut' = <<>>
                  /\ candidategatheringdone' = FALSE ]_vars

\* the connections the operations of a call were invoked on
TargetsOf(call) == {call.log[i].conn : i \in {j \in 1..Len(call.log) : call.log[j].op \in InFlight}}

\* C36: the connection operations of one processOffer or generateOffer call are all
\* invoked on the same connection, also when the connection of the Peer is replaced
\* while the call is in flight.
C36_OneConnectionPerCall ==
  \A k \in 1..Len(calls) :
    calls[k].op \in {"processOffer", "generateOffer"} => Cardinality(TargetsOf(calls[k])) <= 1

\* the transceivers of a kind the Peer added to receive: 'recvonly', nothing sent
ReceptionTransceivers(c, kind) ==
  {i \in 1..Len(c.transceivers) :
     /\ c.transceivers[i].kind = kind
     /\ c.transceivers[i].direction = "recvonly" /\ c.transceivers[i].track = 0}

\* C37: on a recvonly Peer, however many times generateOffer was called, the
\* connection has at most one 'recvonly' transceiver added by the Peer for audio
\* and at most one for video.
C37_NoTransceiverAccumulation ==
  mode = "recvonly" =>
    \A kind \in {"audio", "video"} : Cardinality(ReceptionTransceivers(conns[pc], kind)) <= 1

\* a step of replaceTrack call r, made with the name of a source: the capture
\* settles, or one of its sender.replaceTrack calls does
SourceCallSteps(r) ==
  /\ r \in 1..Len(trackCalls)
  /\ trackCalls[r].argument \in Sources
  /\ trackCalls'[r] # trackCalls[r]

\* C38: no step of a replaceTrack(sourceName) call touches audio: every sender that
\* sends an audio track sends the same track after the step, and the track is
\* stopped only if it was before.
C38_AudioUntouched ==
  [][ \A r \in 1..MaxTrackCalls :
        SourceCallSteps(r) =>
          \A i \in SendersOfKind("audio") :
            LET t == conns[pc].transceivers[i].track
            IN /\ conns'[pc].transceivers[i].track = t
               /\ tracks'[t].stopped = tracks[t].stopped ]_vars

\* an acquisition of media is pending
Acquiring == \E i \in 1..Len(ready) : ready[i].stage = "acquiring"

\* the senders of the connection held that send track t
SendersWith(c, t) == {i \in 1..Len(c.transceivers) : c.transceivers[i].track = t}

\* C39: a replacement of the connection while the acquisition of media is pending
\* makes no further capture call, and when a readiness promise that waited for an
\* acquisition resolves, every track of the streams held is on exactly one sender of
\* the connection held and no sender of it sends a stopped track.
C39_AcquiredOnceAcrossReplace ==
  /\ [][ (Replaced /\ Acquiring) => captures' = captures ]_vars
  /\ [][ \A i \in 1..MaxConns :
           (i <= Len(ready) /\ ready[i].stage = "acquiring" /\ ready'[i].stage = "resolved")
             => /\ \A j \in 1..Len(videoStream'.tracks) :
                     Cardinality(SendersWith(conns'[Len(conns')], videoStream'.tracks[j])) = 1
                /\ \A s \in 1..Len(conns'[Len(conns')].transceivers) :
                     LET t == conns'[Len(conns')].transceivers[s].track
                     IN t # 0 => ~tracks'[t].stopped ]_vars

\* the tracks the senders of a connection send
SentTracks(c) == {c.transceivers[i].track : i \in 1..Len(c.transceivers)} \ {0}

\* the tracks of the streams the replaceTrack calls acquired or replaced
AcquiredTracks ==
  UNION { {trackCalls[r].stream.tracks[j] : j \in 1..Len(trackCalls[r].stream.tracks)}
          \cup {trackCalls[r].previous.tracks[j] : j \in 1..Len(trackCalls[r].previous.tracks)}
          : r \in 1..Len(trackCalls) }

\* C40: dispose() on a Peer whose connection is not closed leaves no track live that
\* a sender of the connection sends or that the Peer acquired, whatever replaceTrack
\* calls came before.
C40_DisposeStopsEveryTrack ==
  [][ disposed' # disposed
        => \A t \in SentTracks(conns[pc]) \cup AcquiredTracks : tracks'[t].stopped ]_vars

====
